---- MODULE Spec2Model ----
(***************************************************************************)
(* A model of the retrieval-augmented question-answering assistant:        *)
(* the HTTP handlers of app/web/fastapi_app.py with their in-memory        *)
(* conversation store, and the answer generator of                         *)
(* app/agents/answer_agent.py with its start-up backend selection.         *)
(*                                                                         *)
(* Text is modelled as a sequence of one-character strings, so that        *)
(* slicing, concatenation and formatting are computed as Python computes   *)
(* them.                                                                   *)
(***************************************************************************)
EXTENDS Integers, Sequences, FiniteSets, TLC

\* ------------------------------------------------------------------ text

\* Python's None. No text equals it: a text holds one-character strings only.
None == <<"<None>">>

Min(a, b) == IF a <= b THEN a ELSE b

\* s[:n] for n >= 0
Take(s, n) == SubSeq(s, 1, Min(n, Len(s)))

\* s[-n:] for n >= 0. Python reads -0 as 0, so s[-0:] is the whole of s.
PyTail(s, n) ==
  IF n = 0 \/ n >= Len(s) THEN s ELSE SubSeq(s, Len(s) - n + 1, Len(s))

\* sep.join(parts)
RECURSIVE Join(_, _)
Join(parts, sep) ==
  IF parts = <<>> THEN <<>>
  ELSE IF Len(parts) = 1 THEN parts[1]
  ELSE parts[1] \o sep \o Join(Tail(parts), sep)

\* whether text s occurs in text t
Contains(t, s) ==
  \E i \in 1..(Len(t) - Len(s) + 1) : SubSeq(t, i, i + Len(s) - 1) = s

StartsWith(t, s) == Len(t) >= Len(s) /\ SubSeq(t, 1, Len(s)) = s

Digits == <<"0", "1", "2", "3", "4", "5", "6", "7", "8", "9">>

\* str(n) for a natural number n
RECURSIVE IntToText(_)
IntToText(n) ==
  IF n < 10 THEN <<Digits[n + 1]>> ELSE IntToText(n \div 10) \o <<Digits[(n % 10) + 1]>>

UpperAlphabet ==
  <<"A", "B", "C", "D", "E", "F", "G", "H", "I", "J", "K", "L", "M", "N", "O", "P", "Q",
    "R", "S", "T", "U", "V", "W", "X", "Y", "Z">>

LowerAlphabet ==
  <<"a", "b", "c", "d", "e", "f", "g", "h", "i", "j", "k", "l", "m", "n", "o", "p", "q",
    "r", "s", "t", "u", "v", "w", "x", "y", "z">>

LowerChar(c) ==
  IF \E i \in 1..Len(UpperAlphabet) : UpperAlphabet[i] = c
  THEN LowerAlphabet[CHOOSE i \in 1..Len(UpperAlphabet) : UpperAlphabet[i] = c]
  ELSE c

\* A lower() that leaves the text as it is
LowerKeepsCase(s) == s

\* s.lower()
Lower(s) == [i \in 1..Len(s) |-> LowerChar(s[i])]

\* x or y, for texts (None and the empty text are falsy)
Or(x, y) == IF x = None \/ x = <<>> THEN y ELSE x

\* ------------------------------------------------- history transcript

UserPrefix ==
  <<"U", "s", "e", "r">>

AssistantPrefix ==
  <<"A", "s", "s", "i", "s", "t", "a", "n", "t">>

RoleUser ==
  <<"u", "s", "e", "r">>

ColonSpace ==
  <<":", " ">>

Newline ==
  <<"\n">>

BlankLine ==
  <<"\n", "\n">>

TruncationMarker ==
  <<".", ".", ".", "(", "t", "r", "u", "n", "c", "a", "t", "e", "d", ")">>

HistoryHeader ==
  <<"C", "o", "n", "v", "e", "r", "s", "a", "t", "i", "o", "n", " ", "h", "i", "s", "t",
    "o", "r", "y", ":", "\n">>

QuestionHeader ==
  <<"\n", "\n", "C", "u", "r", "r", "e", "n", "t", " ", "q", "u", "e", "s", "t", "i", "o",
    "n", ":", "\n">>

\* A request whose history is null (JSON null; an omitted history is the empty list)
NullHistory == <<[null |-> TRUE]>>

\* payload.history or []
HistoryOrEmpty(payload_history) ==
  IF payload_history = NullHistory THEN <<>> ELSE payload_history

\* A cut that puts the marker in front of the characters kept
TruncatedContentMarkerFirst(content, max_char) ==
  IF Len(content) > max_char
  THEN TruncationMarker \o Take(content, max_char)
  ELSE content

\* content after the cut: content[:MAX_HISTORY_CHAR] + "...(truncated)" when it is
\* longer than MAX_HISTORY_CHAR
TruncatedContent(content, max_char) ==
  IF Len(content) > max_char
  THEN Take(content, max_char) \o TruncationMarker
  ELSE content

\* One rendered line of the transcript (the body of the loop over trimmed).
RenderLine(m, max_char) ==
  LET role == Lower(Or(m.role, <<>>))
      content == TruncatedContent(Or(m.content, <<>>), max_char)
      prefix == IF role = RoleUser THEN UserPrefix ELSE AssistantPrefix
  IN prefix \o ColonSpace \o content

\* The lines of the compact transcript: the last max_messages messages, rendered.
TranscriptLines(history, max_messages, max_char) ==
  LET trimmed == PyTail(history, max_messages)
  IN [i \in 1..Len(trimmed) |-> RenderLine(trimmed[i], max_char)]

\* The history as the transcript holds it: the messages kept, each with its content cut
TruncatedHistory(history, max_messages, max_char) ==
  LET trimmed == PyTail(history, max_messages)
  IN [i \in 1..Len(trimmed) |->
        [trimmed[i] EXCEPT !.content = TruncatedContent(Or(@, <<>>), max_char)]]

\* conversation_text
ConversationText(history, max_messages, max_char) ==
  Join(TranscriptLines(history, max_messages, max_char), Newline)

\* An augmented query that gets the header whether or not a history was rendered
AugmentedQueryAlwaysHeader(conversation_text, q) ==
  HistoryHeader \o conversation_text \o QuestionHeader \o q

\* augmented_query
AugmentedQuery(conversation_text, q) ==
  IF conversation_text # <<>>
  THEN HistoryHeader \o conversation_text \o QuestionHeader \o q
  ELSE q

\* ----------------------------------------------------- answer generator

SourceLabel ==
  <<"S", "o", "u", "r", "c", "e", " ">>

LabelOpen ==
  <<" ", "(">>

LabelClose ==
  <<")", ":", "\n">>

ChunkPlaceholder ==
  <<"c", "h", "u", "n", "k", "_">>

SystemInstruction ==
  <<"Y", "o", "u", " ", "a", "r", "e", " ", "a", "n", " ", "a", "s", "s", "i", "s", "t",
    "a", "n", "t", " ", "t", "h", "a", "t", " ", "a", "n", "s", "w", "e", "r", "s", " ",
    "q", "u", "e", "r", "i", "e", "s", " ", "u", "s", "i", "n", "g", " ", "t", "h", "e",
    " ", "p", "r", "o", "v", "i", "d", "e", "d", " ", "s", "o", "u", "r", "c", "e", "s",
    ".", " ", "C", "i", "t", "e", " ", "t", "h", "e", " ", "s", "o", "u", "r", "c", "e",
    " ", "n", "u", "m", "b", "e", "r", "(", "s", ")", " ", "y", "o", "u", " ", "u", "s",
    "e", "d", " ", "a", "t", " ", "t", "h", "e", " ", "e", "n", "d", " ", "o", "f", " ",
    "t", "h", "e", " ", "a", "n", "s", "w", "e", "r", " ", "i", "n", " ", "s", "q", "u",
    "a", "r", "e", " ", "b", "r", "a", "c", "k", "e", "t", "s", ".">>

ContextHeader ==
  <<"\n", "\n", "C", "O", "N", "T", "E", "X", "T", ":", "\n">>

QuestionMark ==
  <<"\n", "\n", "Q", "U", "E", "S", "T", "I", "O", "N", ":", "\n">>

PromptTail ==
  <<"\n", "\n", "A", "n", "s", "w", "e", "r", " ", "c", "o", "n", "c", "i", "s", "e", "l",
    "y", " ", "a", "n", "d", " ", "i", "n", "c", "l", "u", "d", "e", " ", "c", "i", "t",
    "a", "t", "i", "o", "n", "s", ".">>

FallbackMarker ==
  <<"[", "L", "O", "C", "A", "L", "-", "F", "A", "L", "L", "B", "A", "C", "K", "]", " ">>

\* The character limits of the prompt excerpt and of the local fallback, and the
\* number of chunks the local fallback uses.
PromptExcerptChars == 800

FallbackExcerptChars == 500

FallbackChunks == 3

\* md.get(key, default) for a chunk's metadata
MetaGet(md, key, default) == IF key \in DOMAIN md THEN md[key] ELSE default

\* s.replace("\n", " ")
NewlinesToSpaces(s) == [i \in 1..Len(s) |-> IF s[i] = "\n" THEN " " ELSE s[i]]

\* An entry numbered from 0
ContextPartFromZero(i, c) ==
  LET src == MetaGet(c.metadata, "source", ChunkPlaceholder \o IntToText(i - 1))
      excerpt == NewlinesToSpaces(Take(c.content, PromptExcerptChars))
  IN SourceLabel \o IntToText(i - 1) \o LabelOpen \o src \o LabelClose \o excerpt

\* One entry of context_parts
ContextPart(i, c) ==
  LET src == MetaGet(c.metadata, "source", ChunkPlaceholder \o IntToText(i))
      excerpt == NewlinesToSpaces(Take(c.content, PromptExcerptChars))
  IN SourceLabel \o IntToText(i) \o LabelOpen \o src \o LabelClose \o excerpt

build_prompt(query, chunks) ==
  LET context_parts == [i \in 1..Len(chunks) |-> ContextPart(i, chunks[i])]
      context_text == Join(context_parts, BlankLine)
  IN SystemInstruction \o ContextHeader \o context_text \o QuestionMark \o query
       \o PromptTail

NewSdkFailedPrefix ==
  <<"G", "e", "n", "A", "I", " ", "g", "e", "n", "e", "r", "a", "t", "i", "o", "n", " ",
    "f", "a", "i", "l", "e", "d", " ", "f", "o", "r", " ", "m", "o", "d", "e", "l", " ", "'">>

NewSdkFailedSep ==
  <<"'", ":", " ">>

NewSdkModelsPrefix ==
  <<"\n", "\n", "A", "v", "a", "i", "l", "a", "b", "l", "e", " ", "m", "o", "d", "e", "l",
    "s", " ", "(", "p", "a", "r", "t", "i", "a", "l", ")", ":", " ">>

NewSdkAdvice ==
  <<"\n", "\n", "P", "l", "e", "a", "s", "e", " ", "c", "h", "o", "o", "s", "e", " ", "a",
    "n", " ", "a", "v", "a", "i", "l", "a", "b", "l", "e", " ", "m", "o", "d", "e", "l",
    " ", "n", "a", "m", "e", " ", "a", "n", "d", " ", "s", "e", "t", " ", "L", "L", "M",
    "_", "M", "O", "D", "E", "L", "_", "N", "A", "M", "E", " ", "i", "n", " ", "y", "o",
    "u", "r", " ", ".", "e", "n", "v", ".", " ", "C", "o", "m", "m", "o", "n", " ", "o",
    "p", "t", "i", "o", "n", "s", " ", "(", "i", "f", " ", "a", "v", "a", "i", "l", "a",
    "b", "l", "e", " ", "i", "n", " ", "y", "o", "u", "r", " ", "a", "c", "c", "o", "u",
    "n", "t", ")", " ", "m", "i", "g", "h", "t", " ", "b", "e", ":", " ", "'", "t", "e",
    "x", "t", "-", "b", "i", "s", "o", "n", "-", "0", "0", "1", "'", ",", " ", "'", "g",
    "e", "m", "i", "n", "i", "-", "p", "r", "o", "'", ",", " ", "o", "r", " ", "o", "t",
    "h", "e", "r", " ", "l", "i", "s", "t", "e", "d", " ", "a", "b", "o", "v", "e", ".">>

ListFailedPrefix ==
  <<"F", "a", "i", "l", "e", "d", " ", "t", "o", " ", "l", "i", "s", "t", " ", "m", "o",
    "d", "e", "l", "s", ":", " ">>

OldSdkFailedPrefix ==
  <<"O", "l", "d", " ", "S", "D", "K", " ", "g", "e", "n", "e", "r", "a", "t", "i", "o",
    "n", " ", "f", "a", "i", "l", "e", "d", ":", " ">>

TracebackHeader ==
  <<"T", "r", "a", "c", "e", "b", "a", "c", "k", " ", "(", "m", "o", "s", "t", " ", "r",
    "e", "c", "e", "n", "t", " ", "c", "a", "l", "l", " ", "l", "a", "s", "t", ")", ":",
    "\n">>

TracebackFrameGenerate ==
  <<" ", " ", "F", "i", "l", "e", " ", "\"", "a", "p", "p", "/", "a", "g", "e", "n", "t",
    "s", "/", "a", "n", "s", "w", "e", "r", "_", "a", "g", "e", "n", "t", ".", "p", "y",
    "\"", ",", " ", "l", "i", "n", "e", " ", "9", "1", ",", " ", "i", "n", " ", "_", "g",
    "e", "n", "e", "r", "a", "t", "e", "_", "w", "i", "t", "h", "_", "o", "l", "d", "_",
    "s", "d", "k", "\n", " ", " ", " ", " ", "r", "e", "s", "p", " ", "=", " ", "_", "g",
    "e", "n", "a", "i", "_", "c", "l", "i", "e", "n", "t", ".", "g", "e", "n", "e", "r",
    "a", "t", "e", "(", "m", "o", "d", "e", "l", "=", "m", "o", "d", "e", "l", ",", " ",
    "i", "n", "p", "u", "t", "=", "p", "r", "o", "m", "p", "t", ",", " ", "t", "e", "m",
    "p", "e", "r", "a", "t", "u", "r", "e", "=", "0", ".", "0", ",", " ", "m", "a", "x",
    "_", "o", "u", "t", "p", "u", "t", "_", "t", "o", "k", "e", "n", "s", "=", "5", "1",
    "2", ")", "\n">>

TracebackFrameGenerateContent ==
  <<" ", " ", "F", "i", "l", "e", " ", "\"", "a", "p", "p", "/", "a", "g", "e", "n", "t",
    "s", "/", "a", "n", "s", "w", "e", "r", "_", "a", "g", "e", "n", "t", ".", "p", "y",
    "\"", ",", " ", "l", "i", "n", "e", " ", "9", "4", ",", " ", "i", "n", " ", "_", "g",
    "e", "n", "e", "r", "a", "t", "e", "_", "w", "i", "t", "h", "_", "o", "l", "d", "_",
    "s", "d", "k", "\n", " ", " ", " ", " ", "r", "e", "s", "p", " ", "=", " ", "_", "g",
    "e", "n", "a", "i", "_", "c", "l", "i", "e", "n", "t", ".", "g", "e", "n", "e", "r",
    "a", "t", "e", "_", "c", "o", "n", "t", "e", "n", "t", "(", "m", "o", "d", "e", "l",
    "=", "m", "o", "d", "e", "l", ",", " ", "c", "o", "n", "t", "e", "n", "t", "s", "=",
    "p", "r", "o", "m", "p", "t", ")", "\n">>

TracebackFrameUnsupported ==
  <<" ", " ", "F", "i", "l", "e", " ", "\"", "a", "p", "p", "/", "a", "g", "e", "n", "t",
    "s", "/", "a", "n", "s", "w", "e", "r", "_", "a", "g", "e", "n", "t", ".", "p", "y",
    "\"", ",", " ", "l", "i", "n", "e", " ", "9", "6", ",", " ", "i", "n", " ", "_", "g",
    "e", "n", "e", "r", "a", "t", "e", "_", "w", "i", "t", "h", "_", "o", "l", "d", "_",
    "s", "d", "k", "\n", " ", " ", " ", " ", "r", "a", "i", "s", "e", " ", "R", "u", "n",
    "t", "i", "m", "e", "E", "r", "r", "o", "r", "(", "\"", "O", "l", "d", " ", "S", "D",
    "K", " ", "h", "a", "s", " ", "n", "o", " ", "s", "u", "p", "p", "o", "r", "t", "e",
    "d", " ", "g", "e", "n", "e", "r", "a", "t", "i", "o", "n", " ", "m", "e", "t", "h",
    "o", "d", ".", "\"", ")", "\n">>

UnsupportedError ==
  <<"O", "l", "d", " ", "S", "D", "K", " ", "h", "a", "s", " ", "n", "o", " ", "s", "u",
    "p", "p", "o", "r", "t", "e", "d", " ", "g", "e", "n", "e", "r", "a", "t", "i", "o",
    "n", " ", "m", "e", "t", "h", "o", "d", ".">>

\* repr of a list of texts: ['a', 'b']
PyReprList(names) ==
  <<"[">> \o Join([i \in 1..Len(names) |-> <<"'">> \o names[i] \o <<"'">>], <<",", " ">>)
    \o <<"]">>

\* The outcome of listing the models: the names, or the text of the failure.
\* listing is [ok |-> TRUE, names |-> a sequence of texts] or [ok |-> FALSE, err |-> text].
list_available_models_new_sdk(listing) ==
  IF listing.ok THEN PyReprList(listing.names) ELSE ListFailedPrefix \o listing.err

\* The call to the primary backend. call is what the SDK does when called:
\*   [kind |-> "text", text |-> t]       response.text is t (maybe empty)
\*   [kind |-> "raises", err |-> e]      generate_content raises e
\* with, for an empty response.text, candidate (None when reading it raises) and repr.
\* The result is [ok |-> TRUE, text |-> t] or [ok |-> FALSE, error |-> message].
generate_with_new_sdk(prompt, model, call, listing) ==
  IF call.kind = "raises"
  THEN [ok |-> FALSE,
        error |-> NewSdkFailedPrefix \o model \o NewSdkFailedSep \o call.err
                    \o NewSdkModelsPrefix \o list_available_models_new_sdk(listing)
                    \o NewSdkAdvice]
  ELSE IF call.text # None /\ call.text # <<>>
  THEN [ok |-> TRUE, text |-> call.text]
  ELSE IF call.candidate # None
  THEN [ok |-> TRUE, text |-> call.candidate]
  ELSE [ok |-> TRUE, text |-> call.repr]

\* traceback.format_exc() inside the except clause of _generate_with_old_sdk
FormatExc(frame, err) == TracebackHeader \o frame \o err \o Newline

\* The call to the legacy backend. call is what the legacy client offers and does:
\*   [kind |-> "text", method |-> m, text |-> t]  method m exists and returns text t
\*   [kind |-> "raises", method |-> m, err |-> e] method m exists and raises e
\*   [kind |-> "unsupported"]                     neither method exists
\* where m is "generate" or "generate_content".
generate_with_old_sdk(prompt, model, call) ==
  IF call.kind = "text"
  THEN [ok |-> TRUE, text |-> call.text]
  ELSE IF call.kind = "raises"
  THEN [ok |-> FALSE,
        error |-> OldSdkFailedPrefix \o call.err \o Newline
                    \o FormatExc(IF call.method = "generate"
                                 THEN TracebackFrameGenerate
                                 ELSE TracebackFrameGenerateContent, call.err)]
  ELSE [ok |-> FALSE,
        error |-> OldSdkFailedPrefix \o UnsupportedError \o Newline
                    \o FormatExc(TracebackFrameUnsupported, UnsupportedError)]

\* The sources of the chunks that have one, skipping the others
HasSource(c) == "source" \in DOMAIN c.metadata

ChunkSourcesSkippingMissing(chunks) ==
  LET labelled == SelectSeq(chunks, HasSource)
  IN [i \in 1..Len(labelled) |-> labelled[i].metadata.source]

\* [c["metadata"].get("source") for c in chunks]
ChunkSources(chunks) ==
  [i \in 1..Len(chunks) |-> MetaGet(chunks[i].metadata, "source", None)]

\* A summary over every chunk
FallbackSummaryAllChunks(chunks) ==
  Join([i \in 1..Len(chunks) |-> Take(chunks[i].content, FallbackExcerptChars)], BlankLine)

\* The local fallback's summary
FallbackSummary(chunks) ==
  LET used == Take(chunks, FallbackChunks)
  IN Join([i \in 1..Len(used) |-> Take(used[i].content, FallbackExcerptChars)], BlankLine)

\* generate_answer under backend mode `mode`; the result is
\* [ok |-> TRUE, backend, prompt, answer, sources] or [ok |-> FALSE, backend, prompt, error],
\* backend being the branch taken and prompt the prompt that was built.
generate_answer(mode, model_name, query, chunks, call, listing) ==
  LET prompt == build_prompt(query, chunks)
      sent == IF mode = "new" THEN generate_with_new_sdk(prompt, model_name, call, listing)
              ELSE generate_with_old_sdk(prompt, model_name, call)
  IN IF mode \notin {"new", "old"}
     THEN [ok |-> TRUE, backend |-> "none", prompt |-> prompt,
           answer |-> FallbackMarker \o FallbackSummary(chunks),
           sources |-> ChunkSources(chunks)]
     ELSE IF sent.ok
     THEN [ok |-> TRUE, backend |-> mode, prompt |-> prompt, answer |-> sent.text,
           sources |-> ChunkSources(chunks)]
     ELSE [ok |-> FALSE, backend |-> mode, prompt |-> prompt, error |-> sent.error]

\* ------------------------------------------------- backend selection

\* The import-time probe of answer_agent.py. env says what the process finds:
\*   new_import    from google import genai succeeds
\*   client_ok     genai.Client() succeeds
\*   old_import    import google.generativeai succeeds
\*   api_key       GEMINI_API_KEY is a non-empty string
\*   configure_ok  old_genai.configure(api_key=...) succeeds
\* The result is the value of _genai_mode ("none" for None).
ProbeBackendLegacyFirst(env) ==
  IF env.old_import /\ env.api_key /\ env.configure_ok THEN "old"
  ELSE IF env.new_import /\ env.client_ok THEN "new"
  ELSE "none"

ProbeBackend(env) ==
  LET first == IF env.new_import /\ env.client_ok THEN "new" ELSE "none"
  IN IF first # "none" THEN first
     ELSE IF env.old_import /\ env.api_key /\ env.configure_ok THEN "old"
     ELSE "none"

SdkEnvs ==
  [new_import : BOOLEAN, client_ok : BOOLEAN, old_import : BOOLEAN, api_key : BOOLEAN,
   configure_ok : BOOLEAN]

\* ------------------------------------------------------- configuration

\* int(os.environ.get(name, default)): the variable's value when set, else the default.
Unset == -1

EnvInt(value, default) == IF value = Unset THEN default ELSE value

DefaultMaxHistoryMessages == 8

DefaultMaxHistoryChar == 400

RETRIEVE_K == 4

LLM_MODEL_NAME ==
  <<"g", "e", "m", "i", "n", "i", "-", "2", ".", "5", "-", "f", "l", "a", "s", "h">>

\* --------------------------------------------------------- retrieval

\* str(float(i)) for a natural number i
FloatToText(i) == IntToText(i) \o <<".", "0">>

\* The injective sequences of length n over the set S
RECURSIVE Arrangements(_, _)
Arrangements(S, n) ==
  IF n = 0 THEN {<<>>}
  ELSE UNION {{<<x>> \o rest : rest \in Arrangements(S \ {x}, n - 1)} : x \in S}

\* What retrieve_relevant_chunks(query, k) can do on the store: raise, or return the
\* min(k, n) chunks the vector store ranks first, in the store's ranking (opaque here:
\* any order), each with its relevance score.
Retrievals(store, k) ==
  {[ok |-> FALSE]} \cup
  {[ok |-> TRUE,
    chunks |-> [i \in 1..Len(pos) |->
                  [content |-> store[pos[i]].content, metadata |-> store[pos[i]].metadata,
                   score |-> pos[i]]]] :
     pos \in Arrangements(1..Len(store), Min(k, Len(store)))}

\* A retriever given the augmented query
RetrievalQueryAugmented(q, augmented_query) == augmented_query

\* The query the handler passes to the retriever, and the one it passes to the generator
RetrievalQuery(q, augmented_query) == q

GenerationQuery(q, augmented_query) == augmented_query

\* retrieved_chunks after the try/except around the retrieval
ChunksAfterRetrieval(retr) == IF retr.ok THEN retr.chunks ELSE <<>>

\* ----------------------------------------------------- normalisation

HttpDetailPrefix ==
  <<"g", "e", "n", "e", "r", "a", "t", "e", "_", "a", "n", "s", "w", "e", "r", " ", "e",
    "r", "r", "o", "r", ":", " ">>

NotFoundDetail ==
  <<"c", "o", "n", "v", "e", "r", "s", "a", "t", "i", "o", "n", "_", "i", "d", " ", "n",
    "o", "t", " ", "f", "o", "u", "n", "d">>

ConvNamePrefix ==
  <<"c", "o", "n", "v", "_">>

ChatNamePrefix ==
  <<"c", "h", "a", "t", "_">>

\* repr of a text or of None
PyRepr(x) == IF x = None THEN <<"N", "o", "n", "e">> ELSE <<"'">> \o x \o <<"'">>

ReprAnswerEntry ==
  <<"'", "a", "n", "s", "w", "e", "r", "'", ":", " ">>

ReprTextEntry ==
  <<"'", "t", "e", "x", "t", "'", ":", " ">>

ReprSourcesEntry ==
  <<"'", "s", "o", "u", "r", "c", "e", "s", "'", ":", " ">>

ReprContentKey ==
  <<"{", "'", "c", "o", "n", "t", "e", "n", "t", "'", ":", " ">>

ReprMetadataKey ==
  <<",", " ", "'", "m", "e", "t", "a", "d", "a", "t", "a", "'", ":", " ">>

ReprScoreKey ==
  <<",", " ", "'", "s", "c", "o", "r", "e", "'", ":", " ">>

ReprSourceEntry ==
  <<"'", "s", "o", "u", "r", "c", "e", "'", ":", " ">>

ReprSourceNameEntry ==
  <<"'", "s", "o", "u", "r", "c", "e", "_", "n", "a", "m", "e", "'", ":", " ">>

\* repr of a list of texts
PyReprTexts(xs) ==
  <<"[">> \o Join([i \in 1..Len(xs) |-> PyRepr(xs[i])], <<",", " ">>) \o <<"]">>

\* str(answer_obj) of a dict with keys among answer, text, sources (in that order)
PyStrDict(items) ==
  LET entries ==
        (IF "answer" \in DOMAIN items
         THEN <<ReprAnswerEntry \o PyRepr(items.answer)>> ELSE <<>>)
        \o (IF "text" \in DOMAIN items
            THEN <<ReprTextEntry \o PyRepr(items.text)>> ELSE <<>>)
        \o (IF "sources" \in DOMAIN items
            THEN <<ReprSourcesEntry \o PyReprTexts(items.sources)>> ELSE <<>>)
  IN <<"{">> \o Join(entries, <<",", " ">>) \o <<"}">>

\* What generate_answer hands back, as step 5 looks at it:
\*   [kind |-> "str", value |-> t]      a plain string
\*   [kind |-> "dict", items |-> d]     a dict, d holding the keys it has
\* answer_text of step 5
NormalizedAnswerText(answer_obj) ==
  IF answer_obj.kind = "dict"
  THEN Or(Or(MetaGet(answer_obj.items, "answer", None),
             MetaGet(answer_obj.items, "text", None)),
          PyStrDict(answer_obj.items))
  ELSE answer_obj.value

\* sources of step 5
GeneratorSources(answer_obj) ==
  IF answer_obj.kind = "dict" THEN MetaGet(answer_obj.items, "sources", <<>>) ELSE <<>>

\* c.get("metadata", {}).get(key)
ChunkMetaGet(c, key) ==
  IF "metadata" \in DOMAIN c /\ key \in DOMAIN c.metadata THEN c.metadata[key] ELSE None

\* repr of a chunk's metadata with keys among source, source_name (in that order)
PyReprMeta(md) ==
  LET entries ==
        (IF "source" \in DOMAIN md
         THEN <<ReprSourceEntry \o PyRepr(md.source)>> ELSE <<>>)
        \o (IF "source_name" \in DOMAIN md
            THEN <<ReprSourceNameEntry \o PyRepr(md.source_name)>> ELSE <<>>)
  IN <<"{">> \o Join(entries, <<",", " ">>) \o <<"}">>

\* str(c) of a chunk
PyStrChunk(c) ==
  ReprContentKey \o PyRepr(c.content)
    \o (IF "metadata" \in DOMAIN c THEN ReprMetadataKey \o PyReprMeta(c.metadata) ELSE <<>>)
    \o (IF "score" \in DOMAIN c THEN ReprScoreKey \o FloatToText(c.score) ELSE <<>>)
    \o <<"}">>

\* A derivation that knows the source label only
DerivedSourceLabelOnly(c) == ChunkMetaGet(c, "source")

\* The source derived from one retrieved chunk when the generator gave none
DerivedSource(c) ==
  Or(Or(Or(ChunkMetaGet(c, "source"), ChunkMetaGet(c, "source_name")),
        IF "score" \in DOMAIN c THEN FloatToText(c.score) ELSE <<>>),
     PyStrChunk(c))

\* sources after step 6
NormalizedSources(sources, retrieved_chunks) ==
  IF sources = <<>> /\ retrieved_chunks # <<>>
  THEN [i \in 1..Len(retrieved_chunks) |-> DerivedSource(retrieved_chunks[i])]
  ELSE sources

\* Steps 5 and 6 of ask_post and of ask_get: the answer and sources of the response
Normalized(answer_obj, retrieved_chunks) ==
  [answer |-> NormalizedAnswerText(answer_obj),
   sources |-> NormalizedSources(GeneratorSources(answer_obj), retrieved_chunks)]

\* A handler that answers with the generator's error instead of failing
GenerationFailureAnswered(error) ==
  [status |-> 200, answer |-> HttpDetailPrefix \o error, sources |-> <<>>]

\* A handler that goes on with an empty answer when the generator fails
GenerationFailureEmptyAnswer(error) == [status |-> 200, answer |-> <<>>, sources |-> <<>>]

\* The except clause around generate_answer in ask_post
AskPostGenerationFailed(error) == [status |-> 500, detail |-> HttpDetailPrefix \o error]

\* The except clause around generate_answer in ask_get
AskGetGenerationFailed(error) == [status |-> 500, detail |-> HttpDetailPrefix \o error]

\* Steps 1 to 6 of ask_post: from the request and what the collaborators do, the calls
\* made (in order) and the outcome: HTTP 500 with its detail, or the answer and sources.
AskPostBody(mode, max_messages, max_char, q, payload_history, retr, call, listing) ==
  LET history == HistoryOrEmpty(payload_history)
      conversation_text == ConversationText(history, max_messages, max_char)
      augmented_query == AugmentedQuery(conversation_text, q)
      retrieved_chunks == ChunksAfterRetrieval(retr)
      gen == generate_answer(mode, LLM_MODEL_NAME, GenerationQuery(q, augmented_query),
                             retrieved_chunks, call, listing)
      calls == <<[fn |-> "retrieve_relevant_chunks",
                  query |-> RetrievalQuery(q, augmented_query), k |-> RETRIEVE_K,
                  returned |-> retr],
                 [fn |-> "generate_answer", query |-> GenerationQuery(q, augmented_query),
                  chunks |-> retrieved_chunks, backend |-> gen.backend,
                  prompt |-> gen.prompt, call |-> call, ok |-> gen.ok]>>
  IN IF ~gen.ok
     THEN AskPostGenerationFailed(gen.error) @@ [calls |-> calls]
     ELSE [status |-> 200, calls |-> calls]
            @@ Normalized([kind |-> "dict",
                           items |-> [answer |-> gen.answer, sources |-> gen.sources]],
                          retrieved_chunks)

\* The body of ask_get: the same without history
AskGetBody(mode, q, retr, call, listing) ==
  LET chunks == ChunksAfterRetrieval(retr)
      gen == generate_answer(mode, LLM_MODEL_NAME, q, chunks, call, listing)
      calls == <<[fn |-> "retrieve_relevant_chunks", query |-> q, k |-> RETRIEVE_K,
                  returned |-> retr],
                 [fn |-> "generate_answer", query |-> q, chunks |-> chunks,
                  backend |-> gen.backend, prompt |-> gen.prompt, call |-> call,
                  ok |-> gen.ok]>>
  IN IF ~gen.ok
     THEN AskGetGenerationFailed(gen.error) @@ [calls |-> calls]
     ELSE [status |-> 200, calls |-> calls]
            @@ Normalized([kind |-> "dict",
                           items |-> [answer |-> gen.answer, sources |-> gen.sources]],
                          chunks)

\* A load_chat that takes a conversation with an empty history for a missing one
LoadChatResponseEmptyIsMissing(store, conversation_id) ==
  IF conversation_id \notin DOMAIN store \/ store[conversation_id].history = <<>>
  THEN [status |-> 404, detail |-> NotFoundDetail]
  ELSE [status |-> 200, conversation_id |-> conversation_id,
        name |-> store[conversation_id].name, history |-> store[conversation_id].history]

\* The store after load_chat: it reads the store with get and writes nothing
StoreAfterLoadChat(store, conversation_id) == store

\* The response of load_chat on the store
LoadChatResponse(store, conversation_id) ==
  \* _conversation_store.get(conversation_id) is None, or a dict with two keys
  IF conversation_id \notin DOMAIN store
  THEN [status |-> 404, detail |-> NotFoundDetail]
  ELSE [status |-> 200, conversation_id |-> conversation_id,
        name |-> store[conversation_id].name, history |-> store[conversation_id].history]

\* --------------------------------------------------------- ingestion

PdfDir ==
  <<"d", "a", "t", "a", "/", "p", "d", "f", "s", "/">>

PdfLabelPrefix ==
  <<"P", "D", "F", ":", " ">>

UrlLabelPrefix ==
  <<"U", "R", "L", ":", " ">>

OpenPdfFailedPrefix ==
  <<"F", "a", "i", "l", "e", "d", " ", "t", "o", " ", "o", "p", "e", "n", " ", "P", "D",
    "F", " ", "'">>

FetchUrlFailedPrefix ==
  <<"F", "a", "i", "l", "e", "d", " ", "t", "o", " ", "f", "e", "t", "c", "h", " ", "U",
    "R", "L", " ", "'">>

QuoteColon ==
  <<"'", ":", " ">>

InternalServerError ==
  <<"I", "n", "t", "e", "r", "n", "a", "l", " ", "S", "e", "r", "v", "e", "r", " ", "E",
    "r", "r", "o", "r">>

\* A text is held as the pieces the text splitter of chunk_text cuts it into (the
\* splitter is the library's; the empty text has no piece).

\* extract_pdf_text(path). opened is what fitz does with the file:
\*   [ok |-> TRUE, pages |-> the text]   the file opens
\*   [ok |-> FALSE, err |-> e]           fitz.open raises e
\* The result is [ok |-> TRUE, text |-> t] or [ok |-> FALSE, error |-> the ValueError].
extract_pdf_text(path, opened) ==
  IF opened.ok
  THEN [ok |-> TRUE, text |-> opened.pages]
  ELSE [ok |-> FALSE, error |-> OpenPdfFailedPrefix \o path \o QuoteColon \o opened.err]

\* An extractor that gives the empty text when both ways of fetching fail
ExtractWebTextEmptyOnFailure(url, primary, secondary) ==
  IF primary.kind = "docs"
  THEN [ok |-> TRUE, text |-> primary.text]
  ELSE IF secondary.kind = "docs"
  THEN [ok |-> TRUE, text |-> secondary.text]
  ELSE [ok |-> TRUE, text |-> <<>>]

\* extract_web_text(url). primary is what WebBaseLoader(url).load() does and secondary
\* what requests.get and BeautifulSoup do:
\*   [kind |-> "docs", text |-> t]    documents are loaded, t their joined text
\*   [kind |-> "empty"]               the loader returns no document (primary only)
\*   [kind |-> "raises", err |-> e]   an exception e
extract_web_text(url, primary, secondary) ==
  IF primary.kind = "docs"
  THEN [ok |-> TRUE, text |-> primary.text]
  ELSE IF secondary.kind = "docs"
  THEN [ok |-> TRUE, text |-> secondary.text]
  ELSE [ok |-> FALSE, error |-> FetchUrlFailedPrefix \o url \o QuoteColon \o secondary.err]

\* chunk_text(raw_text, source): one chunk per piece, tagged with the source
chunk_text(raw_text, source) ==
  [i \in 1..Len(raw_text) |-> [content |-> raw_text[i], metadata |-> [source |-> source]]]

\* A vector store that skips the chunks it already holds
BuildVectorstoreDeduplicating(store, chunks) ==
  store \o SelectSeq(chunks, LAMBDA c : \A i \in 1..Len(store) : store[i] # c)

\* build_vectorstore(chunks, embedder): Chroma.from_texts adds every text with its
\* metadata, under a new id, to the collection persisted in CHROMA_DIR
build_vectorstore(store, chunks) == store \o chunks

\* An ingest handler after the extraction: the calls it makes, the response and the
\* vector store it leaves. empty_ok: whether Chroma.from_texts accepts an empty list of
\* texts (it depends on the chromadb installed). An exception leaves the handler and
\* the framework answers 500.
IngestBody(extractor, extracted, source, store, empty_ok) ==
  IF ~extracted.ok
  THEN [status |-> 500, detail |-> InternalServerError, store |-> store,
        calls |-> <<[fn |-> extractor, ok |-> FALSE]>>]
  ELSE LET chunks == chunk_text(extracted.text, source)
           stored == chunks # <<>> \/ empty_ok
           calls == <<[fn |-> extractor, ok |-> TRUE],
                      [fn |-> "chunk_text", source |-> source],
                      [fn |-> "build_embedder"],
                      [fn |-> "build_vectorstore", chunks |-> chunks, ok |-> stored]>>
       IN IF stored
          THEN [status |-> 200, chunks |-> Len(chunks),
                store |-> build_vectorstore(store, chunks), calls |-> calls]
          ELSE [status |-> 500, detail |-> InternalServerError, store |-> store,
                calls |-> calls]

\* ------------------------------------------------------------- state

VARIABLES
  sdk_env,               \* what the import-time probe of answer_agent.py finds
  genai_mode,            \* _genai_mode: "new", "old" or "none"
  MAX_HISTORY_MESSAGES,  \* read from the environment at import
  MAX_HISTORY_CHAR,      \* read from the environment at import
  vector_store,          \* the chunks persisted in the vector store
  conversation_store,    \* _conversation_store: id -> [name, history]
  task,                  \* each request task's position in its handler
  loop_owner,            \* the task the event loop is running (0: none)
  clock,                 \* the requests handled so far; utcnow() reads it
  response,              \* the last HTTP response sent, with the calls made for it
  ledger,                \* per id: the history it was created with, the exchanges appended
  fn                     \* the last call of a function applied on its own

vars ==
  <<sdk_env, genai_mode, MAX_HISTORY_MESSAGES, MAX_HISTORY_CHAR, vector_store,
    conversation_store, task, loop_owner, clock, response, ledger, fn>>

\* ------------------------------------------------------------ bounds

\* The most requests one behaviour handles
MaxRequests == 2

\* The request tasks that can be in flight at once
MaxTasks == 2

\* The longest history a request carries
MaxHistory == 3

\* The largest values MAX_HISTORY_MESSAGES and MAX_HISTORY_CHAR are set to
MaxConfigMessages == 2

MaxConfigChar == 2

\* The longest chunk list generate_answer is applied to on its own
MaxChunks == 4

\* ------------------------------------------------------------ inputs

RoleAssistant ==
  <<"a", "s", "s", "i", "s", "t", "a", "n", "t">>

QuestionText ==
  <<"W", "h", "a", "t", " ", "i", "s", " ", "X", "?">>

LongMessage ==
  <<"h", "e", "l", "l", "o">>

ShortMessage ==
  <<"o", "k">>

ClientConvId ==
  <<"c", "1">>

OtherConvId ==
  <<"c", "2">>

Uuid1 ==
  <<"3", "f", "2", "b", "8", "c", "1", "a", "-", "0", "d", "4", "e", "-", "4", "f", "6",
    "a", "-", "9", "b", "7", "c", "-", "1", "e", "2", "d", "3", "c", "4", "b", "5", "a",
    "6", "9">>

Uuid2 ==
  <<"3", "f", "2", "b", "8", "c", "1", "a", "-", "7", "7", "a", "a", "-", "4", "c", "1",
    "b", "-", "8", "e", "0", "f", "-", "5", "d", "6", "c", "7", "b", "8", "a", "9", "f",
    "1", "0">>

ChatName ==
  <<"m", "y", " ", "c", "h", "a", "t">>

PdfSource ==
  <<"P", "D", "F", ":", " ", "t", "e", "s", "t", ".", "p", "d", "f">>

UrlSourceName ==
  <<"U", "R", "L", ":", " ", "h", "t", "t", "p", "s", ":", "/", "/", "e", ".", "x">>

AlphaBeta ==
  <<"A", "l", "p", "h", "a", ".", "\n", "\n", "B", "e", "t", "a", ".">>

AnswerSample ==
  <<"X", " ", "i", "s", " ", "Y", " ", "[", "1", "]">>

CandidateSample ==
  <<"F", "r", "o", "m", " ", "c", "a", "n", "d", "i", "d", "a", "t", "e", "s">>

ResponseRepr ==
  <<"<", "G", "e", "n", "e", "r", "a", "t", "e", "C", "o", "n", "t", "e", "n", "t", "R",
    "e", "s", "p", "o", "n", "s", "e", ">">>

QuotaError ==
  <<"4", "2", "9", " ", "q", "u", "o", "t", "a", " ", "e", "x", "c", "e", "e", "d", "e", "d">>

OfflineError ==
  <<"c", "o", "n", "n", "e", "c", "t", "i", "o", "n", " ", "r", "e", "f", "u", "s", "e", "d">>

ListedModel1 ==
  <<"m", "o", "d", "e", "l", "s", "/", "g", "e", "m", "i", "n", "i", "-", "1", ".", "5",
    "-", "f", "l", "a", "s", "h">>

ListedModel2 ==
  <<"m", "o", "d", "e", "l", "s", "/", "g", "e", "m", "i", "n", "i", "-", "1", ".", "5",
    "-", "p", "r", "o">>

Qs == {<<>>, QuestionText}

\* The sequences over S of length at most n
RECURSIVE SeqsUpTo(_, _)
SeqsUpTo(S, n) ==
  IF n = 0 THEN {<<>>}
  ELSE LET shorter == SeqsUpTo(S, n - 1)
       IN shorter \cup {Append(s, x) : s \in {t \in shorter : Len(t) = n - 1}, x \in S}

\* Messages as the Message model carries them: role, content, ts
Messages ==
  [role : {RoleUser, RoleAssistant, <<"U", "S", "E", "R">>}, content : {<<>>, LongMessage},
   ts : {None}]

Histories == SeqsUpTo(Messages, MaxHistory) \cup {NullHistory}

\* The histories the requests of the handlers carry: none, null, one message, and two
\* messages longer than MAX_HISTORY_CHAR
RequestHistories ==
  {<<>>, NullHistory,
   <<[role |-> RoleUser, content |-> ShortMessage, ts |-> None]>>,
   <<[role |-> RoleUser, content |-> LongMessage, ts |-> None],
     [role |-> RoleAssistant, content |-> LongMessage, ts |-> None]>>}

\* Values the two environment variables are set to (Unset: not set)
ConfigMessages == {Unset} \cup 0..MaxConfigMessages

ConfigChars == {Unset} \cup 0..MaxConfigChar

\* A text of n characters, the digits in turn
LongText(n) == [i \in 1..n |-> Digits[(i % 10) + 1]]

ChunkA == [content |-> AlphaBeta, metadata |-> [source |-> PdfSource]]

ChunkB == [content |-> LongText(PromptExcerptChars + 1),
           metadata |-> [source_name |-> UrlSourceName]]

Chunks == {ChunkA, ChunkB}

MainChunk == [content |-> ShortMessage, metadata |-> [source_name |-> UrlSourceName]]

\* The vector stores a process can find on disk when it starts
Stores == {<<>>, <<ChunkA, MainChunk>>}

Uuids == {Uuid1, Uuid2}

NoListing == [ok |-> FALSE, err |-> <<>>]

\* What the backend of a mode can do when called: the call's outcome and, for a failed
\* call to the primary backend, the outcome of listing the models
BackendOutcomes(mode) ==
  IF mode = "new"
  THEN {[call |-> [kind |-> "text", text |-> AnswerSample, candidate |-> None,
                   repr |-> ResponseRepr], listing |-> NoListing],
        [call |-> [kind |-> "text", text |-> <<>>, candidate |-> CandidateSample,
                   repr |-> ResponseRepr], listing |-> NoListing],
        [call |-> [kind |-> "text", text |-> None, candidate |-> None,
                   repr |-> ResponseRepr], listing |-> NoListing],
        [call |-> [kind |-> "raises", err |-> QuotaError],
         listing |-> [ok |-> TRUE, names |-> <<ListedModel1, ListedModel2>>]],
        [call |-> [kind |-> "raises", err |-> QuotaError],
         listing |-> [ok |-> FALSE, err |-> OfflineError]]}
  ELSE IF mode = "old"
  THEN {[call |-> [kind |-> "text", method |-> "generate", text |-> AnswerSample],
         listing |-> NoListing],
        [call |-> [kind |-> "text", method |-> "generate_content", text |-> <<>>],
         listing |-> NoListing],
        [call |-> [kind |-> "raises", method |-> "generate", err |-> QuotaError],
         listing |-> NoListing],
        [call |-> [kind |-> "raises", method |-> "generate_content", err |-> QuotaError],
         listing |-> NoListing],
        [call |-> [kind |-> "unsupported"], listing |-> NoListing]}
  ELSE {[call |-> [kind |-> "none"], listing |-> NoListing]}

\* The outcomes the handlers' requests meet: per backend, one answer and one failure
RequestOutcomes(mode) ==
  {o \in BackendOutcomes(mode) :
     \/ mode \notin {"new", "old"}
     \/ o.call.kind = "text" /\ o.call.text \in {AnswerSample, <<>>}
                             /\ (mode = "new" => o.call.text = AnswerSample)
                             /\ (mode = "old" => o.call.text = <<>>)
     \/ o.call.kind = "raises" /\ (mode = "new" => o.listing.ok)
                               /\ (mode = "old" => o.call.method = "generate")}

\* One environment per backend mode
OneEnvPerMode ==
  {[new_import |-> TRUE, client_ok |-> TRUE, old_import |-> TRUE, api_key |-> TRUE,
    configure_ok |-> TRUE],
   [new_import |-> TRUE, client_ok |-> FALSE, old_import |-> TRUE, api_key |-> TRUE,
    configure_ok |-> TRUE],
   [new_import |-> FALSE, client_ok |-> FALSE, old_import |-> TRUE, api_key |-> FALSE,
    configure_ok |-> TRUE]}

\* What the requests of a specification range over
AllInputs == [qs |-> Qs, histories |-> RequestHistories, names |-> {None, ChatName}]

FewInputs == [qs |-> {QuestionText}, histories |-> {<<>>}, names |-> {None}]

\* ------------------------------------------------ conversation store

Idle == [pc |-> "idle"]

NoResponse == [op |-> "none"]

NoCall == [name |-> "none"]

\* bool(x) of an optional text
Truthy(x) == x # None /\ x # <<>>

\* An assignment store[id] = value where the code calls setdefault
SetDefaultOverwrites(store, id, value) ==
  IF id \in DOMAIN store THEN [store EXCEPT ![id] = value] ELSE store @@ (id :> value)

\* store.setdefault(id, value)
SetDefault(store, id, value) ==
  IF id \in DOMAIN store THEN store ELSE store @@ (id :> value)

\* An append that stores the content cut as the transcript cuts it
AppendMessageCut(store, id, msg) ==
  [store EXCEPT ![id].history =
     Append(@, [msg EXCEPT !.content = Take(@, MAX_HISTORY_CHAR)])]

\* store[id]["history"].append(msg)
AppendMessage(store, id, msg) == [store EXCEPT ![id].history = Append(@, msg)]

\* datetime.utcnow().isoformat()
UtcNowIso(now) == IntToText(now)

\* An ask_post that awaits between its two appends
AskPostAwaitsBetweenAppends == {"appended_user"}

\* The positions of ask_post at which it awaits, giving the event loop to other
\* tasks: ask_post is an async def with no await expression.
AskPostAwaits == {}

\* m.dict() of a Message
MessageDict(m) == [role |-> m.role, content |-> m.content, ts |-> m.ts]

\* A save_chat that keeps only the last message of the history
SavedConversationLastOnly(name, history) ==
  [name |-> name, history |-> PyTail(history, 1)]

\* The conversation save_chat stores: the name and every message of the payload
SavedConversation(name, history) ==
  [name |-> name, history |-> [i \in 1..Len(history) |-> MessageDict(history[i])]]

\* A uuid4() that can return an id a conversation is already stored under
Uuid4Repeating(store) == Uuids

\* The ids uuid4() can return: one no conversation is stored under.
uuid4(store) == Uuids \ DOMAIN store

\* ------------------------------------------------------------- start

\* The state after import: the backend probed, the configuration read, the
\* conversation store empty, no request handled.
InitWith(envs, config_messages, config_chars, stores) ==
  /\ sdk_env \in envs
  /\ genai_mode = ProbeBackend(sdk_env)
  /\ \E v \in config_messages :
       MAX_HISTORY_MESSAGES = EnvInt(v, DefaultMaxHistoryMessages)
  /\ \E v \in config_chars : MAX_HISTORY_CHAR = EnvInt(v, DefaultMaxHistoryChar)
  /\ vector_store \in stores
  /\ conversation_store = <<>>
  /\ task = [t \in 1..MaxTasks |-> Idle]
  /\ loop_owner = 0
  /\ clock = 0
  /\ response = NoResponse
  /\ ledger = <<>>
  /\ fn = NoCall

Init == InitWith(OneEnvPerMode, {1}, {2}, Stores)

config == <<sdk_env, genai_mode, MAX_HISTORY_MESSAGES, MAX_HISTORY_CHAR, vector_store>>

\* The event loop is free to start a handler: no task is running, the last response
\* has gone out, and the behaviour has requests left.
CanStart(t) ==
  /\ loop_owner = 0
  /\ task[t] = Idle
  /\ response = NoResponse
  /\ clock < MaxRequests

\* The conversation ids a client can send: none, the empty one, its own, or one a
\* conversation is stored under.
ConvIdInputs == {None, <<>>, ClientConvId} \cup DOMAIN conversation_store

\* ----------------------------------------------------------- handlers

\* A POST /ask that builds its transcript from the history stored for the conversation
\* id, followed by the request's
AskPostRunFromStored(t, In) ==
  /\ CanStart(t)
  /\ \E q \in In.qs, history \in In.histories, conv_id \in ConvIdInputs,
        retr \in Retrievals(vector_store, RETRIEVE_K), out \in RequestOutcomes(genai_mode) :
       LET stored == IF conv_id \in DOMAIN conversation_store
                     THEN conversation_store[conv_id].history
                     ELSE <<>>
           r == AskPostBody(genai_mode, MAX_HISTORY_MESSAGES, MAX_HISTORY_CHAR, q,
                            stored \o HistoryOrEmpty(history), retr, out.call, out.listing)
           request == [q |-> q, history |-> history, conversation_id |-> conv_id]
           ts == UtcNowIso(clock)
       IN IF r.status = 500 \/ ~Truthy(conv_id)
          THEN /\ response' = [op |-> "ask_post", request |-> request] @@ r
               /\ UNCHANGED <<conversation_store, task, loop_owner, ledger>>
          ELSE /\ conversation_store' =
                    AppendMessage(
                      SetDefault(conversation_store, conv_id,
                                 [name |-> ConvNamePrefix \o conv_id, history |-> <<>>]),
                      conv_id, [role |-> RoleUser, content |-> q, ts |-> ts])
               /\ task' = [task EXCEPT ![t] =
                             [pc |-> "appended_user", request |-> request, ts |-> ts,
                              answer |-> r.answer, sources |-> r.sources,
                              calls |-> r.calls, before |-> stored]]
               /\ loop_owner' = IF "appended_user" \in AskPostAwaits THEN 0 ELSE t
               /\ ledger' = IF conv_id \in DOMAIN ledger THEN ledger
                            ELSE ledger @@ (conv_id :> [base |-> <<>>, asks |-> <<>>])
               /\ UNCHANGED response
  /\ clock' = clock + 1
  /\ UNCHANGED <<config, fn>>

\* POST /ask, from its first line to the append of the user message (or to its end,
\* when generation fails or no conversation id was given).
AskPostRun(t, In) ==
  /\ CanStart(t)
  /\ \E q \in In.qs, history \in In.histories, conv_id \in ConvIdInputs,
        retr \in Retrievals(vector_store, RETRIEVE_K), out \in RequestOutcomes(genai_mode) :
       LET r == AskPostBody(genai_mode, MAX_HISTORY_MESSAGES, MAX_HISTORY_CHAR, q, history,
                            retr, out.call, out.listing)
           request == [q |-> q, history |-> history, conversation_id |-> conv_id]
           ts == UtcNowIso(clock)
       IN IF r.status = 500 \/ ~Truthy(conv_id)
          THEN /\ response' = [op |-> "ask_post", request |-> request] @@ r
               /\ UNCHANGED <<conversation_store, task, loop_owner, ledger>>
          ELSE /\ conversation_store' =
                    AppendMessage(
                      SetDefault(conversation_store, conv_id,
                                 [name |-> ConvNamePrefix \o conv_id, history |-> <<>>]),
                      conv_id, [role |-> RoleUser, content |-> q, ts |-> ts])
               /\ task' = [task EXCEPT ![t] =
                             [pc |-> "appended_user", request |-> request, ts |-> ts,
                              answer |-> r.answer, sources |-> r.sources,
                              calls |-> r.calls,
                              before |-> IF conv_id \in DOMAIN conversation_store
                                         THEN conversation_store[conv_id].history
                                         ELSE <<>>]]
               /\ loop_owner' = IF "appended_user" \in AskPostAwaits THEN 0 ELSE t
               /\ ledger' = IF conv_id \in DOMAIN ledger THEN ledger
                            ELSE ledger @@ (conv_id :> [base |-> <<>>, asks |-> <<>>])
               /\ UNCHANGED response
  /\ clock' = clock + 1
  /\ UNCHANGED <<config, fn>>

\* POST /ask, from the append of the assistant message to the return.
AskPostReturn(t) ==
  /\ task[t].pc = "appended_user"
  /\ loop_owner \in {0, t}
  /\ response = NoResponse
  /\ LET conv_id == task[t].request.conversation_id
     IN /\ conversation_store' =
             AppendMessage(conversation_store, conv_id,
                           [role |-> RoleAssistant, content |-> task[t].answer,
                            ts |-> task[t].ts])
        /\ ledger' = [ledger EXCEPT ![conv_id].asks =
                        Append(@, [q |-> task[t].request.q, answer |-> task[t].answer])]
  /\ response' = [op |-> "ask_post", request |-> task[t].request, status |-> 200,
                  answer |-> task[t].answer, sources |-> task[t].sources,
                  calls |-> task[t].calls]
  /\ task' = [task EXCEPT ![t] = Idle]
  /\ loop_owner' = 0
  /\ UNCHANGED <<config, clock, fn>>

\* GET /ask
AskGet(t, In) ==
  /\ CanStart(t)
  /\ \E q \in In.qs, retr \in Retrievals(vector_store, RETRIEVE_K),
        out \in RequestOutcomes(genai_mode) :
       LET r == AskGetBody(genai_mode, q, retr, out.call, out.listing)
       IN response' = [op |-> "ask_get", request |-> [q |-> q]] @@ r
  /\ clock' = clock + 1
  /\ UNCHANGED <<config, conversation_store, task, loop_owner, ledger, fn>>

\* POST /save_chat
SaveChat(t, In) ==
  /\ CanStart(t)
  /\ \E given \in In.names, history \in In.histories \ {NullHistory},
        conv_id \in uuid4(conversation_store) :
       LET name == Or(given, ChatNamePrefix \o Take(conv_id, 8))
           conv == SavedConversation(name, history)
       IN /\ conversation_store' =
               IF conv_id \in DOMAIN conversation_store
               THEN [conversation_store EXCEPT ![conv_id] = conv]
               ELSE conversation_store @@ (conv_id :> conv)
          /\ ledger' =
               LET entry == [base |-> history, asks |-> <<>>, name |-> name]
               IN IF conv_id \in DOMAIN ledger
                  THEN [ledger EXCEPT ![conv_id] = entry]
                  ELSE ledger @@ (conv_id :> entry)
          /\ response' = [op |-> "save_chat",
                          request |-> [name |-> given, history |-> history],
                          status |-> 200, conversation_id |-> conv_id, name |-> name]
  /\ clock' = clock + 1
  /\ UNCHANGED <<config, task, loop_owner, fn>>

\* GET /load_chat
LoadChat(t) ==
  /\ CanStart(t)
  /\ \E conversation_id \in {<<>>, ClientConvId, OtherConvId} \cup DOMAIN conversation_store :
       /\ response' = [op |-> "load_chat", request |-> [conversation_id |-> conversation_id]]
                     @@ LoadChatResponse(conversation_store, conversation_id)
       /\ conversation_store' = StoreAfterLoadChat(conversation_store, conversation_id)
  /\ clock' = clock + 1
  /\ UNCHANGED <<config, task, loop_owner, ledger, fn>>

\* The response goes out to the client.
Deliver ==
  /\ response # NoResponse
  /\ response' = NoResponse
  /\ UNCHANGED <<config, conversation_store, task, loop_owner, clock, ledger, fn>>

NextOn(In) ==
  \/ \E t \in 1..MaxTasks : AskPostRun(t, In)
  \/ \E t \in 1..MaxTasks : AskPostReturn(t)
  \/ \E t \in 1..MaxTasks : AskGet(t, In)
  \/ \E t \in 1..MaxTasks : SaveChat(t, In)
  \/ \E t \in 1..MaxTasks : LoadChat(t)
  \/ Deliver

Next == NextOn(AllInputs)

Spec == Init /\ [][Next]_vars

\* The same handlers in every environment the start-up probe can meet, on few inputs
BootInit == InitWith(SdkEnvs, {Unset}, {Unset}, {<<ChunkA>>})

BootNext == NextOn(FewInputs)

BootSpec == BootInit /\ [][BootNext]_vars

\* ------------------------------------- the functions on their own

\* Steps 1 and 2 of ask_post (the transcript and the augmented query), applied once to
\* a history and a question under each configuration.
HistInit ==
  InitWith({e \in SdkEnvs : \A k \in DOMAIN e : ~e[k]}, ConfigMessages, ConfigChars, {<<>>})

BuildTranscript ==
  /\ fn = NoCall
  /\ \E q \in Qs, payload_history \in Histories :
       LET history == HistoryOrEmpty(payload_history)
           conversation_text ==
             ConversationText(history, MAX_HISTORY_MESSAGES, MAX_HISTORY_CHAR)
       IN fn' = [name |-> "transcript", q |-> q, history |-> payload_history,
                 lines |-> TranscriptLines(history, MAX_HISTORY_MESSAGES, MAX_HISTORY_CHAR),
                 truncated |->
                   TruncatedHistory(history, MAX_HISTORY_MESSAGES, MAX_HISTORY_CHAR),
                 truncated_again |->
                   TruncatedHistory(
                     TruncatedHistory(history, MAX_HISTORY_MESSAGES, MAX_HISTORY_CHAR),
                     MAX_HISTORY_MESSAGES, MAX_HISTORY_CHAR),
                 conversation_text |-> conversation_text,
                 augmented_query |-> AugmentedQuery(conversation_text, q)]
  /\ UNCHANGED <<config, conversation_store, task, loop_owner, clock, response, ledger>>

HistNext == BuildTranscript

HistSpec == HistInit /\ [][HistNext]_vars

\* generate_answer, applied once to a query and a chunk list under each backend mode.
GenInit == InitWith(SdkEnvs, {Unset}, {Unset}, {<<>>})

ChunkLists == SeqsUpTo(Chunks, MaxChunks)

Generate ==
  /\ fn = NoCall
  /\ \E query \in Qs, chunks \in ChunkLists, out \in BackendOutcomes(genai_mode) :
       fn' = [name |-> "generate_answer", query |-> query, chunks |-> chunks,
              call |-> out.call, listing |-> out.listing,
              result |-> generate_answer(genai_mode, LLM_MODEL_NAME, query, chunks,
                                         out.call, out.listing)]
  /\ UNCHANGED <<config, conversation_store, task, loop_owner, clock, response, ledger>>

GenNext == Generate

GenSpec == GenInit /\ [][GenNext]_vars

\* Steps 5 and 6 of the ask handlers (normalisation), applied once to what a generator
\* hands back and to the chunks retrieved.
NormInit == InitWith({e \in SdkEnvs : \A k \in DOMAIN e : ~e[k]}, {Unset}, {Unset}, {<<>>})

\* Retrieved chunks: with a source label, with the secondary key only, with an empty
\* label, and with neither metadata nor score
ScoredChunkA == ChunkA @@ [score |-> 1]

ScoredMainChunk == MainChunk @@ [score |-> 2]

UnlabelledChunk == [content |-> ShortMessage, metadata |-> [source |-> <<>>], score |-> 3]

BareChunk == [content |-> ShortMessage]

RetrievedShapes == {ScoredChunkA, ScoredMainChunk, UnlabelledChunk, BareChunk}

RetrievedLists == SeqsUpTo(RetrievedShapes, MaxChunks)

\* What a generator hands back for the chunks: a plain string, the dict generate_answer
\* builds, a dict without sources, a dict with text and no sources, a dict with an empty
\* answer
GeneratorShapes(chunks) ==
  {[kind |-> "str", value |-> AnswerSample],
   [kind |-> "dict", items |-> [answer |-> AnswerSample]],
   [kind |-> "dict", items |-> [text |-> AnswerSample, sources |-> <<>>]],
   [kind |-> "dict", items |-> [answer |-> <<>>, sources |-> <<>>]]}
  \cup IF \A i \in 1..Len(chunks) : "metadata" \in DOMAIN chunks[i]
       THEN {[kind |-> "dict",
              items |-> [answer |-> AnswerSample, sources |-> ChunkSources(chunks)]]}
       ELSE {}

Normalize ==
  /\ fn = NoCall
  /\ \E retrieved_chunks \in RetrievedLists :
       \E answer_obj \in GeneratorShapes(retrieved_chunks) :
         fn' = [name |-> "normalize", answer_obj |-> answer_obj,
                retrieved_chunks |-> retrieved_chunks,
                result |-> Normalized(answer_obj, retrieved_chunks)]
  /\ UNCHANGED <<config, conversation_store, task, loop_owner, clock, response, ledger>>

NormNext == Normalize

NormSpec == NormInit /\ [][NormNext]_vars

\* ------------------------------------------------- the ingest handlers

UploadName ==
  <<"t", "e", "s", "t", ".", "p", "d", "f">>

PageUrl ==
  <<"h", "t", "t", "p", "s", ":", "/", "/", "e", ".", "x">>

Piece1 ==
  <<"A", "l", "p", "h", "a", ".">>

Piece2 ==
  <<"B", "e", "t", "a", ".">>

DamagedError ==
  <<"f", "i", "l", "e", " ", "i", "s", " ", "d", "a", "m", "a", "g", "e", "d">>

\* The texts a document can hold: two pieces, one piece, nothing
Texts == {<<Piece1, Piece2>>, <<Piece2>>, <<>>}

\* What fitz can do with an uploaded file
PdfOutcomes ==
  {[ok |-> TRUE, pages |-> text] : text \in Texts} \cup {[ok |-> FALSE, err |-> DamagedError]}

\* What the two ways of fetching a page can do
PrimaryOutcomes ==
  {[kind |-> "docs", text |-> <<Piece1, Piece2>>], [kind |-> "empty"],
   [kind |-> "raises", err |-> OfflineError]}

SecondaryOutcomes ==
  {[kind |-> "docs", text |-> <<Piece2>>], [kind |-> "raises", err |-> OfflineError]}

\* POST /ingest_pdf, up to the await of file.read(): the file is opened for writing
IngestPdfRead(t) ==
  /\ CanStart(t)
  /\ \E filename \in {UploadName} :
       task' = [task EXCEPT ![t] = [pc |-> "reading", filename |-> filename]]
  /\ clock' = clock + 1
  /\ UNCHANGED <<config, conversation_store, loop_owner, response, ledger, fn>>

\* POST /ingest_pdf, from the write of the file to the return
IngestPdfStore(t) ==
  /\ task[t].pc = "reading"
  /\ loop_owner = 0
  /\ response = NoResponse
  /\ \E opened \in PdfOutcomes, empty_ok \in BOOLEAN :
       LET filename == task[t].filename
           r == IngestBody("extract_pdf_text", extract_pdf_text(PdfDir \o filename, opened),
                           PdfLabelPrefix \o filename, vector_store, empty_ok)
       IN /\ vector_store' = r.store
          /\ response' = [op |-> "ingest_pdf", request |-> [filename |-> filename],
                          met |-> [opened |-> opened]]
                          @@ [k \in DOMAIN r \ {"store"} |-> r[k]]
  /\ task' = [task EXCEPT ![t] = Idle]
  /\ UNCHANGED <<sdk_env, genai_mode, MAX_HISTORY_MESSAGES, MAX_HISTORY_CHAR,
                 conversation_store, loop_owner, clock, ledger, fn>>

\* POST /ingest_url
IngestUrl(t) ==
  /\ CanStart(t)
  /\ \E url \in {PageUrl}, primary \in PrimaryOutcomes, secondary \in SecondaryOutcomes,
        empty_ok \in BOOLEAN :
       LET r == IngestBody("extract_web_text", extract_web_text(url, primary, secondary),
                           UrlLabelPrefix \o url, vector_store, empty_ok)
       IN /\ vector_store' = r.store
          /\ response' = [op |-> "ingest_url", request |-> [url |-> url],
                          met |-> [primary |-> primary, secondary |-> secondary]]
                          @@ [k \in DOMAIN r \ {"store"} |-> r[k]]
  /\ clock' = clock + 1
  /\ UNCHANGED <<sdk_env, genai_mode, MAX_HISTORY_MESSAGES, MAX_HISTORY_CHAR,
                 conversation_store, task, loop_owner, ledger, fn>>

\* The ingest handlers and GET /ask on the store they fill, from an empty store
IngestInit ==
  InitWith({e \in SdkEnvs : \A k \in DOMAIN e : ~e[k]}, {Unset}, {Unset}, {<<>>})

IngestNext ==
  \/ \E t \in 1..MaxTasks : IngestPdfRead(t)
  \/ \E t \in 1..MaxTasks : IngestPdfStore(t)
  \/ \E t \in 1..MaxTasks : IngestUrl(t)
  \/ \E t \in 1..MaxTasks : AskGet(t, FewInputs)
  \/ Deliver

IngestSpec == IngestInit /\ [][IngestNext]_vars

\* ------------------------------------------------------------ claims

\* The messages a request's history holds: none when it is null
Given(history) == IF history = NullHistory THEN <<>> ELSE history

IsAsk == response.op \in {"ask_post", "ask_get"}

IsAskPost == response.op = "ask_post"

\* C1: POST /ask calls the retriever first, with the raw query q as received (never the
\* augmented query), and then the generator, with the augmented query (the history
\* header, the rendered history and q when a rendered history exists, else q) and with
\* exactly the chunks the retriever returned.
C1_RawQueryToRetriever ==
  IsAskPost =>
    LET calls == response.calls
        req == response.request
        rendered == ConversationText(Given(req.history), MAX_HISTORY_MESSAGES,
                                     MAX_HISTORY_CHAR)
    IN /\ Len(calls) = 2
       /\ calls[1].fn = "retrieve_relevant_chunks"
       /\ calls[1].query = req.q
       /\ rendered # <<>> => calls[1].query # calls[2].query
       /\ calls[2].fn = "generate_answer"
       /\ calls[2].query = IF rendered # <<>>
                           THEN HistoryHeader \o rendered \o QuestionHeader \o req.q
                           ELSE req.q
       /\ calls[1].returned.ok => calls[2].chunks = calls[1].returned.chunks

\* C1's case: a request with a history, answered from chunks the retriever returned
C1_Witness ==
  /\ IsAskPost
  /\ Given(response.request.history) # <<>>
  /\ response.calls[1].returned.ok
  /\ Len(response.calls[2].chunks) = 2

\* What the backend did raised an error inside the generator
GeneratorFailed(call) == call.kind \in {"raises", "unsupported"}

\* C2: in an ask request (POST and GET) a failed retrieval does not abort the request:
\* the generator still runs, on zero chunks, and the request succeeds when the generator
\* does; a failure inside the generator always ends the request with HTTP 500 and no
\* answer.
C2_RetrievalDegradesGenerationFatal ==
  IsAsk =>
    LET calls == response.calls
    IN /\ Len(calls) = 2
       /\ calls[2].fn = "generate_answer"
       /\ ~calls[1].returned.ok => calls[2].chunks = <<>>
       /\ GeneratorFailed(calls[2].call) =>
            response.status = 500 /\ "answer" \notin DOMAIN response
       /\ ~GeneratorFailed(calls[2].call) =>
            response.status = 200 /\ "answer" \in DOMAIN response

\* C2's case: the retrieval failed and the request succeeded all the same
C2_Witness ==
  /\ IsAsk
  /\ ~response.calls[1].returned.ok
  /\ response.status = 200

\* The two messages ask_post stores for a request: the question, then the answer
UserMessage(q, ts) == [role |-> RoleUser, content |-> q, ts |-> ts]

AssistantMessage(answer, ts) == [role |-> RoleAssistant, content |-> answer, ts |-> ts]

\* The stored history of id, empty when nothing is stored under id
StoredHistory(store, id) == IF id \in DOMAIN store THEN store[id].history ELSE <<>>

\* Every conversation but id is the same in the next state
OthersUnchanged(id) ==
  \A other \in (DOMAIN conversation_store \cup DOMAIN conversation_store') \ {id} :
    /\ other \in DOMAIN conversation_store
    /\ other \in DOMAIN conversation_store'
    /\ conversation_store'[other] = conversation_store[other]

\* C3 as stated: whenever POST /ask succeeds and the request gave a conversation_id
\* (anything but null), that conversation is stored and its history ends with the user
\* message holding q and the assistant message holding the answer returned.
C3_AsStated ==
  (IsAskPost /\ response.status = 200 /\ response.request.conversation_id # None) =>
    LET id == response.request.conversation_id
        h == StoredHistory(conversation_store, id)
    IN /\ id \in DOMAIN conversation_store
       /\ Len(h) >= 2
       /\ h[Len(h) - 1].role = RoleUser /\ h[Len(h) - 1].content = response.request.q
       /\ h[Len(h)].role = RoleAssistant /\ h[Len(h)].content = response.answer

\* The steps of one POST /ask that gives a non-empty conversation_id
C3_Step ==
  /\ \A t \in 1..MaxTasks :
       \* up to the append of the user message
       (task[t] = Idle /\ task'[t] # Idle) =>
         LET id == task'[t].request.conversation_id
             before == StoredHistory(conversation_store, id)
         IN /\ Truthy(id)
            /\ task'[t].ts # None
            /\ task'[t].before = before
            /\ DOMAIN conversation_store' = DOMAIN conversation_store \cup {id}
            /\ id \notin DOMAIN conversation_store => before = <<>>
            /\ conversation_store'[id].history =
                 Append(before, UserMessage(task'[t].request.q, task'[t].ts))
            /\ OthersUnchanged(id)
  /\ \A t \in 1..MaxTasks :
       \* from there to the response
       (task[t] # Idle /\ task'[t] = Idle) =>
         LET id == task[t].request.conversation_id
         IN /\ response'.op = "ask_post" /\ response'.status = 200
            /\ response'.request = task[t].request
            /\ DOMAIN conversation_store' = DOMAIN conversation_store
            /\ conversation_store'[id].history =
                 task[t].before
                   \o <<UserMessage(task[t].request.q, task[t].ts),
                        AssistantMessage(response'.answer, task[t].ts)>>
            /\ conversation_store'[id].name = conversation_store[id].name
            /\ OthersUnchanged(id)
  /\ \* a successful POST /ask with a non-empty id responds in no other way
     (response = NoResponse /\ response'.op = "ask_post" /\ response'.status = 200
        /\ Truthy(response'.request.conversation_id)) =>
       \E t \in 1..MaxTasks : task[t] # Idle /\ task'[t] = Idle

\* C3 (amended): when POST /ask succeeds with a non-empty conversation_id, the stored
\* history of that conversation is extended by exactly two messages: the user message
\* holding q, then the assistant message holding the answer returned, both with the
\* request's timestamp; a conversation not yet stored is created first with an empty
\* history; no other conversation changes.
C3_AppendsExchange == [][C3_Step]_vars

\* C3's case: a second exchange appended to a conversation stored before
C3_Witness ==
  /\ IsAskPost /\ response.status = 200
  /\ Truthy(response.request.conversation_id)
  /\ Len(StoredHistory(conversation_store, response.request.conversation_id)) >= 3

\* No request task is inside a handler
Quiescent == \A t \in 1..MaxTasks : task[t] = Idle

StripTs(m) == [role |-> m.role, content |-> m.content]

\* The history the ledger accounts for: what the conversation was created with, then
\* one user message and one assistant message per completed request, in order
ExpectedHistory(entry) ==
  [i \in 1..Len(entry.base) |-> StripTs(entry.base[i])]
    \o [i \in 1..(2 * Len(entry.asks)) |->
          IF i % 2 = 1
          THEN [role |-> RoleUser, content |-> entry.asks[(i + 1) \div 2].q]
          ELSE [role |-> RoleAssistant, content |-> entry.asks[i \div 2].answer]]

\* C4: however the POST /ask requests on one conversation id are scheduled, once they
\* are done the stored history is what it started as followed by one pair per successful
\* request - the request's user message, then at once its assistant message, with the
\* same timestamp - so it has grown by exactly 2n messages after n requests.
C4_AtomicAppend ==
  Quiescent =>
    /\ DOMAIN conversation_store = DOMAIN ledger
    /\ \A id \in DOMAIN conversation_store :
         LET h == conversation_store[id].history
             entry == ledger[id]
         IN /\ Len(h) = Len(entry.base) + 2 * Len(entry.asks)
            /\ [i \in 1..Len(h) |-> StripTs(h[i])] = ExpectedHistory(entry)
            /\ \A n \in 1..Len(entry.asks) :
                 /\ h[Len(entry.base) + 2 * n - 1].ts # None
                 /\ h[Len(entry.base) + 2 * n - 1].ts = h[Len(entry.base) + 2 * n].ts

\* C4's case: two requests on the same id are done
C4_Witness ==
  /\ Quiescent
  /\ \E id \in DOMAIN ledger : Len(ledger[id].asks) = 2

IsTranscript == fn.name = "transcript"

IsGenerate == fn.name = "generate_answer"

\* The last n elements of s, none when n is 0
LastMessages(s, n) == SubSeq(s, Len(s) - Min(n, Len(s)) + 1, Len(s))

\* A content cut to its first max_char characters, marked when it was longer
CutContent(content, max_char) ==
  IF Len(content) > max_char
  THEN SubSeq(content, 1, max_char) \o TruncationMarker
  ELSE content

\* The transcript renders exactly the messages kept, in order, each with its content cut
RendersExactly(lines, kept, max_char) ==
  /\ Len(lines) = Len(kept)
  /\ \A i \in 1..Len(kept) :
       \E prefix \in {UserPrefix, AssistantPrefix} :
         lines[i] = prefix \o ColonSpace \o CutContent(kept[i].content, max_char)

\* C5 as stated: for every history and every N >= 0 and M >= 0, the transcript holds
\* only the last N messages of the history, in their order, each content cut to its
\* first M characters with the truncation marker appended exactly when it was longer.
C5_AsStated ==
  IsTranscript =>
    RendersExactly(fn.lines, LastMessages(Given(fn.history), MAX_HISTORY_MESSAGES),
                   MAX_HISTORY_CHAR)

\* What holds of C5: the same for N >= 1, and with N = 0 the whole history is rendered.
C5_HoldsForPositive ==
  IsTranscript =>
    RendersExactly(fn.lines,
                   IF MAX_HISTORY_MESSAGES = 0 THEN Given(fn.history)
                   ELSE LastMessages(Given(fn.history), MAX_HISTORY_MESSAGES),
                   MAX_HISTORY_CHAR)

\* C6: with an empty history the augmented query is the raw query and nothing else;
\* with a rendered history it is "Conversation history:\n", the rendered history,
\* "\n\nCurrent question:\n" and the raw query.
C6_AugmentedQuery ==
  IsTranscript =>
    /\ fn.history \in {<<>>, NullHistory} => fn.augmented_query = fn.q
    /\ fn.conversation_text # <<>> =>
         fn.augmented_query = HistoryHeader \o fn.conversation_text \o QuestionHeader \o fn.q
    /\ fn.history \notin {<<>>, NullHistory} => fn.conversation_text # <<>>

\* C6's case: no history and the question "What is X?"
C6_Witness ==
  /\ IsTranscript
  /\ fn.history = <<>>
  /\ fn.q = QuestionText
  /\ fn.augmented_query = QuestionText

LocalFallbackTag ==
  <<"[", "L", "O", "C", "A", "L", "-", "F", "A", "L", "L", "B", "A", "C", "K", "]">>

\* C7: with no backend available generate_answer does not fail: its answer begins with
\* "[LOCAL-FALLBACK]" and is built from the first 500 characters of at most the first 3
\* chunks, and sources holds the source of every chunk given (as many as there are
\* chunks, not min(3, chunks)).
C7_LocalFallback ==
  (IsGenerate /\ genai_mode = "none") =>
    LET chunks == fn.chunks
        used == SubSeq(chunks, 1, Min(3, Len(chunks)))
        excerpts == [i \in 1..Len(used) |->
                       SubSeq(used[i].content, 1, Min(500, Len(used[i].content)))]
    IN /\ fn.result.ok
       /\ StartsWith(fn.result.answer, LocalFallbackTag)
       /\ fn.result.answer = LocalFallbackTag \o <<" ">> \o Join(excerpts, BlankLine)
       /\ Len(fn.result.sources) = Len(chunks)
       /\ \A i \in 1..Len(chunks) :
            fn.result.sources[i] = IF "source" \in DOMAIN chunks[i].metadata
                                   THEN chunks[i].metadata.source
                                   ELSE None

\* C7's case: four chunks, one of the first three longer than 500 characters
C7_Witness ==
  /\ IsGenerate /\ genai_mode = "none"
  /\ Len(fn.chunks) = 4
  /\ \E i \in 1..3 : Len(fn.chunks[i].content) > 500
  /\ Len(fn.result.sources) = 4

\* The backend the probe is to select: the primary one when available, else the
\* legacy one when available, else none
PrimaryAvailable == sdk_env.new_import /\ sdk_env.client_ok

LegacyAvailable == sdk_env.old_import /\ sdk_env.api_key /\ sdk_env.configure_ok

C8_Selected ==
  /\ PrimaryAvailable => genai_mode = "new"
  /\ (~PrimaryAvailable /\ LegacyAvailable) => genai_mode = "old"
  /\ (~PrimaryAvailable /\ ~LegacyAvailable) => genai_mode = "none"
  /\ IsAsk => response.calls[2].backend = genai_mode

\* C8: the backend is selected at start by probing the primary, then the legacy, then
\* none; the selection never changes, and every generate call of the process goes to
\* it, whatever happened in earlier requests.
C8_SelectedOnce == [](C8_Selected) /\ [][genai_mode' = genai_mode]_vars

\* C8's case: the primary SDK imports but its client fails, the legacy backend is
\* selected, and the second request of the process fails in it
C8_Witness ==
  /\ sdk_env.new_import /\ ~sdk_env.client_ok
  /\ clock = 2
  /\ IsAsk /\ response.status = 500
  /\ response.calls[2].backend = "old"

\* The error an SDK raised inside the generator
UnderlyingError(call) == IF call.kind = "raises" THEN call.err ELSE UnsupportedError

\* C9 as stated: when generation fails on the primary or on the legacy backend, the
\* error names the failing model, carries the underlying error and, when the models
\* could be listed, their names; a failed listing does not hide the underlying error.
C9_AsStated ==
  (IsGenerate /\ ~fn.result.ok) =>
    /\ Contains(fn.result.error, LLM_MODEL_NAME)
    /\ Contains(fn.result.error, UnderlyingError(fn.call))
    /\ (genai_mode = "new" /\ fn.listing.ok) =>
         \A i \in 1..Len(fn.listing.names) : Contains(fn.result.error, fn.listing.names[i])

\* What holds of C9: the same on the primary backend; on the legacy backend the error
\* carries the underlying error.
C9_HoldsOnPrimary ==
  (IsGenerate /\ ~fn.result.ok) =>
    /\ genai_mode = "new" => Contains(fn.result.error, LLM_MODEL_NAME)
    /\ Contains(fn.result.error, UnderlyingError(fn.call))
    /\ (genai_mode = "new" /\ fn.listing.ok) =>
         \A i \in 1..Len(fn.listing.names) : Contains(fn.result.error, fn.listing.names[i])
    /\ (genai_mode = "new" /\ ~fn.listing.ok) => Contains(fn.result.error, fn.listing.err)

IsLoadChat == response.op = "load_chat"

C10_Response ==
  IsLoadChat =>
    LET id == response.request.conversation_id
    IN IF id \in DOMAIN conversation_store
       THEN /\ response.status = 200
            /\ response.conversation_id = id
            /\ response.name = conversation_store[id].name
            /\ response.history = conversation_store[id].history
       ELSE /\ response.status = 404
            /\ response.detail = NotFoundDetail

\* C10: load_chat of an id that is not stored answers 404 and leaves the store as it
\* was (it creates nothing); load_chat of a stored id, whatever its history, answers
\* with that conversation's id, name and stored history.
C10_LoadChat ==
  /\ [](C10_Response)
  /\ [][(response = NoResponse /\ response'.op = "load_chat") =>
          conversation_store' = conversation_store]_vars

\* C10's case: an id that is not stored, asked of a store that holds a conversation
C10_Witness ==
  /\ IsLoadChat
  /\ response.status = 404
  /\ conversation_store # <<>>
  /\ response.request.conversation_id \notin DOMAIN conversation_store

\* The ledger's entry of a conversation save_chat created, with the name it returned
SavedBySaveChat(id) == id \in DOMAIN ledger /\ "name" \in DOMAIN ledger[id]

\* C11: load_chat of an id save_chat returned, with no ask on that id in between,
\* answers with the name save_chat returned and with the messages that were saved, in
\* their order, whatever the history saved (the empty one too).
C11_SaveThenLoad ==
  (IsLoadChat /\ SavedBySaveChat(response.request.conversation_id)
     /\ ledger[response.request.conversation_id].asks = <<>>) =>
    LET entry == ledger[response.request.conversation_id]
    IN /\ response.status = 200
       /\ response.conversation_id = response.request.conversation_id
       /\ response.name = entry.name
       /\ response.history = entry.base

\* C11's case: a chat of two messages saved without a name, then loaded
C11_Witness ==
  /\ IsLoadChat /\ SavedBySaveChat(response.request.conversation_id)
  /\ response.status = 200
  /\ Len(response.history) = 2
  /\ StartsWith(response.name, ChatNamePrefix)

\* s is the beginning of t
IsPrefix(s, t) == Len(s) <= Len(t) /\ SubSeq(t, 1, Len(s)) = s

\* A step of an ask handler (POST or GET)
AskStep ==
  \/ \E t \in 1..MaxTasks : task'[t] # task[t]
  \/ response = NoResponse /\ response'.op \in {"ask_post", "ask_get"}

\* An ask leaves every message stored before it as it was
C12_StoredUntouched ==
  AskStep =>
    \A id \in DOMAIN conversation_store :
      /\ id \in DOMAIN conversation_store'
      /\ IsPrefix(conversation_store[id].history, conversation_store'[id].history)

\* The pair a successful POST /ask appended holds the raw query and the whole answer
C12_PairInFull ==
  (IsAskPost /\ response.status = 200 /\ Truthy(response.request.conversation_id)) =>
    LET h == StoredHistory(conversation_store, response.request.conversation_id)
    IN /\ Len(h) >= 2
       /\ h[Len(h) - 1].content = response.request.q
       /\ h[Len(h)].content = response.answer

\* C12: cutting the history changes only what is sent to the generator: after any ask,
\* also one whose history has more than N messages or messages longer than M
\* characters, every message stored before is unchanged, and the pair the ask appended
\* stores the raw query and the answer in full.
C12_TruncationLeavesStore == [](C12_PairInFull) /\ [][C12_StoredUntouched]_vars

\* C12's case: a request whose history is cut (more than N messages, one longer than M
\* characters) and whose question is longer than M, appended to a stored conversation
C12_Witness ==
  /\ IsAskPost /\ response.status = 200
  /\ Len(Given(response.request.history)) > MAX_HISTORY_MESSAGES
  /\ \E i \in 1..Len(response.request.history) :
       Len(response.request.history[i].content) > MAX_HISTORY_CHAR
  /\ Len(response.request.q) > MAX_HISTORY_CHAR
  /\ Contains(response.calls[2].query, TruncationMarker)
  /\ Len(StoredHistory(conversation_store, response.request.conversation_id)) = 4

\* C13: under every backend mode a successful generate_answer returns one source per
\* chunk given, in the chunks' order: the chunk's metadata.source, or null where the
\* metadata has no source.
C13_SourcesPerChunk ==
  (IsGenerate /\ fn.result.ok) =>
    /\ Len(fn.result.sources) = Len(fn.chunks)
    /\ \A i \in 1..Len(fn.chunks) :
         IF "source" \in DOMAIN fn.chunks[i].metadata
         THEN fn.result.sources[i] = fn.chunks[i].metadata.source
         ELSE fn.result.sources[i] = None

\* C13's case: the primary backend answers on chunks of which the first has no source
\* and a later one has
C13_Witness ==
  /\ IsGenerate /\ fn.result.ok /\ genai_mode = "new"
  /\ Len(fn.chunks) >= 2
  /\ fn.result.sources[1] = None
  /\ \E i \in 2..Len(fn.chunks) : fn.result.sources[i] = PdfSource

IsNormalize == fn.name = "normalize"

\* A text: a sequence of characters, not null
IsText(x) == x # None /\ \A i \in 1..Len(x) : x[i] \in STRING

\* A text that is given and not empty
Labelled(c, key) ==
  /\ "metadata" \in DOMAIN c /\ key \in DOMAIN c.metadata
  /\ c.metadata[key] # None /\ c.metadata[key] # <<>>

\* The sources the generator handed back with its answer
SourcesGiven(answer_obj) ==
  IF answer_obj.kind = "dict" /\ "sources" \in DOMAIN answer_obj.items
  THEN answer_obj.items.sources
  ELSE <<>>

\* C14: whatever the generator hands back (a string or a dict) the response carries a
\* text answer and a sequence of sources; when the generator gave no sources and chunks
\* were retrieved, the sources are derived one per retrieved chunk, in order: the source
\* label, else the source_name entry, else the score as a string, else the chunk as a
\* string; the sources are never more than the chunks retrieved, and a chunk without
\* metadata is derived like any other.
C14_Normalized ==
  IsNormalize =>
    LET chunks == fn.retrieved_chunks
        given == SourcesGiven(fn.answer_obj)
        r == fn.result
    IN /\ IsText(r.answer) /\ r.answer # <<>>
       /\ DOMAIN r.sources = 1..Len(r.sources)
       /\ Len(r.sources) <= Len(chunks)
       /\ given # <<>> => r.sources = given
       /\ (given = <<>> /\ chunks # <<>>) =>
            /\ Len(r.sources) = Len(chunks)
            /\ \A i \in 1..Len(chunks) :
                 /\ IsText(r.sources[i]) /\ r.sources[i] # <<>>
                 /\ Labelled(chunks[i], "source") =>
                      r.sources[i] = chunks[i].metadata.source
                 /\ (~Labelled(chunks[i], "source") /\ Labelled(chunks[i], "source_name")) =>
                      r.sources[i] = chunks[i].metadata.source_name
                 /\ (~Labelled(chunks[i], "source") /\ ~Labelled(chunks[i], "source_name")
                       /\ "score" \in DOMAIN chunks[i]) =>
                      r.sources[i] = IntToText(chunks[i].score) \o <<".", "0">>
                 /\ (~Labelled(chunks[i], "source") /\ ~Labelled(chunks[i], "source_name")
                       /\ "score" \notin DOMAIN chunks[i]) =>
                      StartsWith(r.sources[i], ReprContentKey)

\* C14's case: the generator hands back a plain string and four chunks were retrieved,
\* one of each kind
C14_Witness ==
  /\ IsNormalize
  /\ fn.answer_obj.kind = "str"
  /\ fn.retrieved_chunks = <<ScoredChunkA, ScoredMainChunk, UnlabelledChunk, BareChunk>>
  /\ fn.result.answer = AnswerSample
  /\ fn.result.sources =
       <<PdfSource, UrlSourceName, <<"3", ".", "0">>,
         ReprContentKey \o <<"'">> \o ShortMessage \o <<"'", "}">> >>

\* The number i as the prompt writes it, for i up to 9
Numeral(i) == <<(<<"1", "2", "3", "4", "5", "6", "7", "8", "9">>)[i]>>

\* The excerpt of a content: its first 800 characters, each newline a space
ExcerptOf(content) ==
  [j \in 1..(IF Len(content) < 800 THEN Len(content) ELSE 800) |->
     IF content[j] = "\n" THEN " " ELSE content[j]]

\* The labelled excerpt of the i-th chunk
LabelledExcerpt(i, c) ==
  <<"S", "o", "u", "r", "c", "e", " ">> \o Numeral(i) \o <<" ", "(">>
    \o (IF "source" \in DOMAIN c.metadata THEN c.metadata.source
        ELSE <<"c", "h", "u", "n", "k", "_">> \o Numeral(i))
    \o <<")", ":", "\n">> \o ExcerptOf(c.content)

\* The excerpts of chunks from the i-th on, a blank line between them
RECURSIVE ExcerptsFrom(_, _)
ExcerptsFrom(i, chunks) ==
  IF i > Len(chunks) THEN <<>>
  ELSE LabelledExcerpt(i, chunks[i])
         \o (IF i < Len(chunks) THEN <<"\n", "\n">> ELSE <<>>)
         \o ExcerptsFrom(i + 1, chunks)

\* C15: for every query and chunk list the prompt holds one labelled excerpt per chunk,
\* in order: "Source i (source)" with i from 1 and source the chunk's metadata.source,
\* or "chunk_i" when it has none, then at most the first 800 characters of the content
\* with newlines made spaces; the excerpts are joined by a blank line and stand after
\* "CONTEXT:" and before "QUESTION:", which the query follows.
C15_Prompt ==
  IsGenerate =>
    fn.result.prompt =
      SystemInstruction
        \o <<"\n", "\n", "C", "O", "N", "T", "E", "X", "T", ":", "\n">>
        \o ExcerptsFrom(1, fn.chunks)
        \o <<"\n", "\n", "Q", "U", "E", "S", "T", "I", "O", "N", ":", "\n">>
        \o fn.query
        \o PromptTail

\* C15's case: a chunk of 801 characters without a source, then a chunk with a source
\* and newlines in its content
C15_Witness ==
  /\ IsGenerate
  /\ fn.chunks = <<ChunkB, ChunkA>>
  /\ fn.query = QuestionText
  /\ Contains(fn.result.prompt,
              <<"S", "o", "u", "r", "c", "e", " ", "1", " ", "(", "c", "h", "u", "n", "k", "_", "1",
                ")", ":", "\n", "1", "2", "3", "4">>)
  /\ Contains(fn.result.prompt,
              <<"\n", "\n", "S", "o", "u", "r", "c", "e", " ", "2", " ", "(", "P", "D", "F", ":", " ",
                "t", "e", "s", "t", ".", "p", "d", "f", ")", ":", "\n", "A", "l", "p", "h", "a", ".",
                " ", " ", "B", "e", "t", "a", ".", "\n", "\n", "Q", "U", "E", "S", "T", "I", "O", "N",
                ":", "\n", "W", "h", "a", "t", " ", "i", "s", " ", "X", "?">>)
  /\ ~Contains(fn.result.prompt, ChunkB.content)

\* The messages the transcript retained: as many as it has lines, from the end
Retained(history, lines) == SubSeq(history, Len(history) - Len(lines) + 1, Len(history))

\* The lines in order with a newline between them
RECURSIVE LinesFrom(_, _)
LinesFrom(i, lines) ==
  IF i > Len(lines) THEN <<>>
  ELSE lines[i] \o (IF i < Len(lines) THEN <<"\n">> ELSE <<>>) \o LinesFrom(i + 1, lines)

\* The text is "user" written in any mix of upper and lower case
IsUserAnyCase(role) ==
  /\ Len(role) = 4
  /\ role[1] \in {"u", "U"} /\ role[2] \in {"s", "S"}
  /\ role[3] \in {"e", "E"} /\ role[4] \in {"r", "R"}

\* Each line renders its message, "User: " on the roles user_role accepts
PrefixedBy(user_role(_)) ==
  IsTranscript =>
    LET kept == Retained(Given(fn.history), fn.lines)
    IN /\ Len(fn.lines) <= Len(Given(fn.history))
       /\ \A i \in 1..Len(kept) :
            IF user_role(kept[i].role)
            THEN StartsWith(fn.lines[i], <<"U", "s", "e", "r", ":", " ">>)
            ELSE StartsWith(fn.lines[i],
                            <<"A", "s", "s", "i", "s", "t", "a", "n", "t", ":", " ">>)
       /\ fn.conversation_text = LinesFrom(1, fn.lines)

IsExactlyUser(role) == role = <<"u", "s", "e", "r">>

\* C16 as stated: a retained message is rendered "User:" only when its role is exactly
\* "user" and "Assistant:" for any other role; the lines are in message order, joined
\* by newlines.
C16_AsStated == PrefixedBy(IsExactlyUser)

\* C16 (amended): a retained message is rendered "User:" when its role, lowercased, is
\* "user" ("user", "USER", "User", ...) and "Assistant:" for any other role; the lines
\* are in message order, joined by newlines.
C16_PrefixByLoweredRole == PrefixedBy(IsUserAnyCase)

\* C16's case: a message of role "USER" rendered "User:" before one of role "assistant"
C16_Witness ==
  /\ IsTranscript
  /\ Len(fn.lines) = 2 /\ Len(fn.history) = 2
  /\ fn.history[1].role = <<"U", "S", "E", "R">> /\ fn.history[2].role = RoleAssistant
  /\ StartsWith(fn.lines[1], <<"U", "s", "e", "r", ":", " ">>)
  /\ StartsWith(fn.lines[2], <<"A", "s", "s", "i", "s", "t", "a", "n", "t", ":", " ">>)

\* C17: truncating a truncated history changes nothing: for every history, N and M,
\* the history truncated twice is the history truncated once; a history of at most N
\* messages, each of at most M characters, is given back as it is.
C17_TruncationIdempotent ==
  IsTranscript =>
    /\ fn.truncated_again = fn.truncated
    /\ (/\ Len(Given(fn.history)) <= MAX_HISTORY_MESSAGES
        /\ \A i \in 1..Len(Given(fn.history)) :
             Len(Given(fn.history)[i].content) <= MAX_HISTORY_CHAR) =>
         fn.truncated = Given(fn.history)

\* C17's case: a history of three messages and contents of five characters under
\* N = 2 and M = 2: one message is dropped, a content is cut and marked, and the
\* second truncation changes nothing more
C17_Witness ==
  /\ IsTranscript
  /\ MAX_HISTORY_MESSAGES = 2 /\ MAX_HISTORY_CHAR = 2
  /\ Len(Given(fn.history)) = 3
  /\ Len(fn.truncated) = 2
  /\ fn.truncated[2].content = <<"h", "e">> \o TruncationMarker
  /\ fn.truncated_again = fn.truncated

IsIngest == response.op \in {"ingest_pdf", "ingest_url"}

\* The source label of an ingest request
LabelOf(resp) ==
  IF resp.op = "ingest_pdf"
  THEN <<"P", "D", "F", ":", " ">> \o resp.request.filename
  ELSE <<"U", "R", "L", ":", " ">> \o resp.request.url

\* A handler step that ends an ingest request
IngestEnds == response = NoResponse /\ response'.op \in {"ingest_pdf", "ingest_url"}

\* A successful ingest adds as many chunks as it returns, tagged with its label, after
\* the chunks stored before
C18_Step ==
  (IngestEnds /\ response'.status = 200) =>
    /\ Len(vector_store') = Len(vector_store) + response'.chunks
    /\ IsPrefix(vector_store, vector_store')
    /\ \A i \in (Len(vector_store) + 1)..Len(vector_store') :
         vector_store'[i].metadata.source = LabelOf(response')

\* C18: every successful ingest adds to the vector store exactly as many chunks as the
\* count it returns, each tagged "PDF: <filename>" or "URL: <url>", whether or not the
\* store holds the same chunks already (a second ingest of a document leaves two
\* copies), and it leaves the chunks stored earlier as they were.
C18_IngestAppends == [][C18_Step]_vars

\* C18's case: the same PDF ingested twice, its two chunks stored twice
C18_Witness ==
  /\ IsIngest /\ response.op = "ingest_pdf" /\ response.status = 200
  /\ response.chunks = 2
  /\ Len(vector_store) = 4
  /\ vector_store[1] = vector_store[3] /\ vector_store[2] = vector_store[4]
  /\ vector_store[1].metadata.source = PdfSource

\* The text of the request's document could not be extracted: the PDF does not open, or
\* the page is fetched neither by the loader nor by the fallback
ExtractionFailed(resp) ==
  IF resp.op = "ingest_pdf"
  THEN ~resp.met.opened.ok
  ELSE resp.met.primary.kind # "docs" /\ resp.met.secondary.kind = "raises"

\* An ingest whose extraction fails answers with an error after the extractor alone
\* was called, and leaves the vector store as it was
C19_Step ==
  (IngestEnds /\ ExtractionFailed(response')) =>
    /\ response'.status = 500
    /\ Len(response'.calls) = 1
    /\ response'.calls[1].fn \in {"extract_pdf_text", "extract_web_text"}
    /\ vector_store' = vector_store

\* After the error response the server takes the next request
C19_StillServing ==
  /\ (IsIngest /\ response.status = 500) => ENABLED Deliver
  /\ (response = NoResponse /\ clock < MaxRequests /\ task[1] = Idle) =>
       /\ ENABLED IngestUrl(1)
       /\ ENABLED AskGet(1, FewInputs)

\* C19: when the text cannot be extracted (the PDF does not open; the URL is fetched
\* neither by the loader nor by the fallback) the ingest request ends with an error
\* response and nothing is chunked, embedded or written to the vector store; the
\* server then serves the requests that follow.
C19_ExtractionFailureAborts == [](C19_StillServing) /\ [][C19_Step]_vars

\* C19's case: a page neither way can fetch, asked to be ingested after a document was
\* stored: an error response, the store as it was
C19_Witness ==
  /\ IsIngest /\ response.op = "ingest_url"
  /\ response.met.primary.kind = "raises" /\ response.met.secondary.kind = "raises"
  /\ response.status = 500
  /\ clock = 2
  /\ Len(vector_store) = 2

\* A POST /ask whose generation fails ends there, with the store as it was
C20_Step ==
  /\ (response = NoResponse /\ response'.op = "ask_post" /\ ~response'.calls[2].ok) =>
       /\ response'.status = 500
       /\ conversation_store' = conversation_store
  /\ \A t \in 1..MaxTasks :
       (task[t] = Idle /\ task'[t] # Idle) => task'[t].calls[2].ok

\* C20: when generation fails in POST /ask the conversation store stays exactly as it
\* was before the request: no user message and no assistant message is appended and no
\* conversation is created, also when the request gave a conversation_id.
C20_FailureLeavesStore == [][C20_Step]_vars

\* C20's case: generation fails for a request that names a conversation not stored
C20_Witness ==
  /\ IsAskPost /\ response.status = 500
  /\ ~response.calls[2].ok
  /\ response.request.conversation_id = ClientConvId
  /\ ClientConvId \notin DOMAIN conversation_store

\* The outcome in rec is the one r gives: the same calls, status, and answer and
\* sources or error detail
SameOutcome(rec, r) ==
  /\ rec.calls = r.calls
  /\ rec.status = r.status
  /\ IF r.status = 200
     THEN rec.answer = r.answer /\ rec.sources = r.sources
     ELSE rec.detail = r.detail

\* The response of an ask is what its request, the chunks the vector store returned
\* and the backend's behaviour give, with no conversation stored at all
OutcomeFromRequestAlone ==
  /\ response.calls[1].returned \in Retrievals(vector_store, RETRIEVE_K)
  /\ \E out \in RequestOutcomes(genai_mode) :
       /\ out.call = response.calls[2].call
       /\ SameOutcome(response,
                      IF IsAskPost
                      THEN AskPostBody(genai_mode, MAX_HISTORY_MESSAGES, MAX_HISTORY_CHAR,
                                       response.request.q, response.request.history,
                                       response.calls[1].returned, out.call, out.listing)
                      ELSE AskGetBody(genai_mode, response.request.q,
                                      response.calls[1].returned, out.call, out.listing))

\* C21: the outcome of an ask (POST or GET) depends only on the request (q, history),
\* the vector store and the backend, never on the conversation store: whatever is
\* stored for the request's conversation_id or for any other id, the prompt sent to
\* the generator, the answer and the sources are those the same request gets with
\* nothing stored; ask writes the stored history and never reads it.
C21_StoreNeverRead == IsAsk => OutcomeFromRequestAlone

\* C21's case: a POST /ask with an empty history on a conversation that already had
\* messages stored, answered by a backend from the prompt
C21_Witness ==
  /\ IsAskPost /\ response.status = 200
  /\ response.request.history = <<>>
  /\ response.request.conversation_id \in DOMAIN conversation_store
  /\ Len(conversation_store[response.request.conversation_id].history) >= 4
  /\ response.calls[2].backend \in {"new", "old"}

\* Every conversation stored stays, under its name, with its history as the beginning
\* of the one stored next
C22_KeptAndExtended ==
  \A id \in DOMAIN conversation_store :
    /\ id \in DOMAIN conversation_store'
    /\ conversation_store'[id].name = conversation_store[id].name
    /\ IsPrefix(conversation_store[id].history, conversation_store'[id].history)

\* save_chat answers with an id no conversation was stored under, and stores one there
C22_SaveChatFresh ==
  (response = NoResponse /\ response'.op = "save_chat") =>
    /\ response'.conversation_id \notin DOMAIN conversation_store
    /\ response'.conversation_id \in DOMAIN conversation_store'
    /\ DOMAIN conversation_store' =
         DOMAIN conversation_store \cup {response'.conversation_id}

\* GET /ask and load_chat leave the store as it was
C22_ReadOnlyHandlers ==
  (response = NoResponse /\ response'.op \in {"ask_get", "load_chat"}) =>
    conversation_store' = conversation_store

\* C22: stored conversations are append-only across any sequence of POST /ask,
\* GET /ask, save_chat and load_chat calls: a conversation once created is never
\* removed or renamed, every earlier stored history of an id is a prefix of every later
\* one, save_chat always creates a conversation under a fresh id and never overwrites
\* an existing one, and GET /ask and load_chat never change the store.
C22_AppendOnly ==
  [][C22_KeptAndExtended /\ C22_SaveChatFresh /\ C22_ReadOnlyHandlers]_vars

\* C22's case: a chat saved with messages and a name, then extended by a POST /ask on
\* the id save_chat returned
C22_Witness ==
  /\ IsAskPost /\ response.status = 200
  /\ SavedBySaveChat(response.request.conversation_id)
  /\ LET id == response.request.conversation_id
     IN /\ ledger[id].name = ChatName
        /\ Len(ledger[id].base) = 2
        /\ conversation_store[id].name = ChatName
        /\ Len(conversation_store[id].history) = 4

====
